---------------------------- MODULE Spec2Model ----------------------------
(***************************************************************************)
(* StorySync: the context store (utils/context_manager.py) that carries    *)
(* facts of finished chapters into later generation calls, and the chapter *)
(* loop (main.py, app.py, story/chapters.py) that feeds it.                *)
(*                                                                         *)
(* Spec          an arbitrary caller of the ContextManager API.            *)
(* LoopSpec      one run of the chapter loop of main() /                   *)
(*               generate_full_story.                                      *)
(* OutlineSpec   one call of StoryFoundation.generate_story_outline.       *)
(* ValidateSpec  ChapterGenerator._validate_chapter_fields on the values   *)
(*               a parsed chapter can hold.                                *)
(* LongRunSpec   a run of the chapter loop over more chapters than one     *)
(*               bundle list holds, the model answering alike each time.   *)
(***************************************************************************)
EXTENDS Integers, Sequences, FiniteSets, TLC

(***************************************************************************)
(* config/settings.py                                                      *)
(***************************************************************************)
MAX_CONTEXT_ITEMS == 15
CRITICAL_CONTEXT_WEIGHT == 3

(***************************************************************************)
(* Bounds of the model.                                                    *)
(***************************************************************************)
\* chapter numbers run over 1..MaxChapter
MaxChapter == 3
\* number of API calls an arbitrary caller makes
MaxOps == 2
\* the chapter loop runs stories of 1..MaxRunChapters chapters
MaxRunChapters == 4
\* the long run of the chapter loop has MaxLongRun chapters
MaxLongRun == 17

(***************************************************************************)
(* Python values.  A dict field holds a str, a list of str, None, or is    *)
(* absent from the dict; the tag t tells which, s and l carry the value.   *)
(***************************************************************************)
PyStr(str) == [t |-> "str", s |-> str, l |-> <<>>]
PyList(lst) == [t |-> "list", s |-> "", l |-> lst]
PyNone == [t |-> "none", s |-> "", l |-> <<>>]
PyAbsent == [t |-> "absent", s |-> "", l |-> <<>>]
PyInt(int) == [t |-> "int", s |-> "", l |-> <<>>, i |-> int]
PyDict == [t |-> "dict", s |-> "", l |-> <<>>]

\* dict.get(key, default)
DictGet(value, default) == IF value.t = "absent" THEN default ELSE value

\* truthiness of a str or a list: non-empty
Truthy(value) ==
  CASE value.t = "str" -> value.s # ""
    [] value.t = "list" -> value.l # <<>>
    [] OTHER -> FALSE

Range(seq) == {seq[i] : i \in 1..Len(seq)}

(***************************************************************************)
(* str.lower() and the substring test `sub in text`.                       *)
(***************************************************************************)
LowerChar(c) ==
  CASE c = "A" -> "a" [] c = "B" -> "b" [] c = "C" -> "c" [] c = "D" -> "d"
    [] c = "E" -> "e" [] c = "F" -> "f" [] c = "G" -> "g" [] c = "H" -> "h"
    [] c = "I" -> "i" [] c = "J" -> "j" [] c = "K" -> "k" [] c = "L" -> "l"
    [] c = "M" -> "m" [] c = "N" -> "n" [] c = "O" -> "o" [] c = "P" -> "p"
    [] c = "Q" -> "q" [] c = "R" -> "r" [] c = "S" -> "s" [] c = "T" -> "t"
    [] c = "U" -> "u" [] c = "V" -> "v" [] c = "W" -> "w" [] c = "X" -> "x"
    [] c = "Y" -> "y" [] c = "Z" -> "z" [] OTHER -> c

RECURSIVE Lower(_)
Lower(text) ==
  IF text = "" THEN ""
  ELSE LowerChar(SubSeq(text, 1, 1)) \o Lower(SubSeq(text, 2, Len(text)))

Contains(text, sub) ==
  \E i \in 1..(Len(text) - Len(sub) + 1) : SubSeq(text, i, i + Len(sub) - 1) = sub

(***************************************************************************)
(* State.                                                                  *)
(***************************************************************************)
VARIABLES
  context_points,     \* ContextManager.context_points: list of point dicts
  chapter_summaries,  \* ContextManager.chapter_summaries: chapter number -> summary dict
  last,               \* the most recent ContextManager call of the caller
  result,             \* the bundle returned by the most recent get_context_for_chapter
  ops,                \* API calls made so far by the arbitrary caller
  pc,                 \* where the chapter loop stands ("api": no loop, a free caller)
  loop_chapter_num,   \* chapter_num of  for chapter_num in range(1, num_chapters + 1)
  num_chapters,       \* the number of chapters asked for
  selected_genres,    \* the genres of the run (ChapterGenerator.genres)
  story_outline,      \* ChapterGenerator.story_outline
  genre_arcs,         \* ChapterGenerator.genre_arcs: genre -> arc dict
  genre_guidance,     \* what _determine_genre_emphasis returned for the chapter
  loop_chapter,       \* chapter of the loop: the dict generate_chapter returned
  generation,         \* the model's response and the path generate_chapter took
  save_result,        \* what storage.save_chapter returned (the loop ignores it)
  trace               \* the calls of the loop so far, in order

store_vars == <<context_points, chapter_summaries>>
caller_vars == <<last, result, ops>>
loop_vars == <<pc, loop_chapter_num, num_chapters, selected_genres, story_outline,
               genre_arcs, genre_guidance, loop_chapter, generation, save_result, trace>>
vars == <<store_vars, caller_vars, loop_vars>>

(***************************************************************************)
(* ContextManager.add_context_point                                        *)
(***************************************************************************)
\* mutant: "critical" is ranked one above "high" whatever the setting says
weight_map_critical_above_high(importance) ==
  CASE importance = "low" -> 1
    [] importance = "medium" -> 2
    [] importance = "high" -> 3
    [] importance = "critical" -> 4
    [] OTHER -> 2

weight_map(importance) ==
  CASE importance = "low" -> 1
    [] importance = "medium" -> 2
    [] importance = "high" -> 3
    [] importance = "critical" -> CRITICAL_CONTEXT_WEIGHT
    [] OTHER -> 2

\* lines 101-107: the dict appended for one point
new_point(content, chapter, importance, context_type) ==
  [content |-> content,
   chapter |-> chapter,
   importance |-> importance,
   type |-> context_type,
   weight |-> weight_map(Lower(importance))]

add_context_point(points, content, chapter, importance, context_type) ==
  Append(points, new_point(content, chapter, importance, context_type))

(***************************************************************************)
(* list.sort(key=lambda x: (x["weight"], x["chapter"]), reverse=True).     *)
(* Python's sort is stable, and with reverse=True elements of equal key    *)
(* keep their original relative order: the sorted list is, for each key    *)
(* from the greatest down, the points of that key in their list order.     *)
(***************************************************************************)
\* mutant: the chapter is compared first, the weight breaks ties
SortKey_chapter_first(point) == <<point.chapter, point.weight>>

SortKey(point) == <<point.weight, point.chapter>>

KeyLess(k1, k2) == k1[1] < k2[1] \/ (k1[1] = k2[1] /\ k1[2] < k2[2])

RECURSIVE SortedByKeys(_, _)
SortedByKeys(points, keys) ==
  IF keys = {} THEN <<>>
  ELSE LET greatest == CHOOSE k \in keys : \A other \in keys : ~KeyLess(k, other)
       IN SelectSeq(points, LAMBDA point : SortKey(point) = greatest)
          \o SortedByKeys(points, keys \ {greatest})

sort_by_weight(points) ==
  SortedByKeys(points, {SortKey(points[i]) : i \in 1..Len(points)})

(***************************************************************************)
(* ContextManager._prune_context                                           *)
(***************************************************************************)
\* mutant: the prune step already fires at exactly 3*MAX_CONTEXT_ITEMS points
prune_context_at_limit(points) ==
  IF Len(points) >= MAX_CONTEXT_ITEMS * 3
  THEN SubSeq(sort_by_weight(points), 1, MAX_CONTEXT_ITEMS * 2)
  ELSE points

\* mutant: the points that survive a prune step lose one unit of weight
prune_context_decaying(points) ==
  IF Len(points) > MAX_CONTEXT_ITEMS * 3
  THEN [i \in 1..(MAX_CONTEXT_ITEMS * 2) |->
          [sort_by_weight(points)[i] EXCEPT !.weight = @ - 1]]
  ELSE points

prune_context(points) ==
  IF Len(points) > MAX_CONTEXT_ITEMS * 3
  THEN SubSeq(sort_by_weight(points), 1, MAX_CONTEXT_ITEMS * 2)
  ELSE points

(***************************************************************************)
(* ContextManager.update_with_chapter                                      *)
(***************************************************************************)
\* mutant: a str is iterated as it is, one item per character
AsList_per_character(value) ==
  CASE value.t = "str" -> [i \in 1..Len(value.s) |-> SubSeq(value.s, i, i)]
    [] value.t = "list" -> value.l
    [] OTHER -> <<>>

\* a str field normalised to a list: [value] if value else []
AsList(value) ==
  CASE value.t = "str" -> IF value.s # "" THEN <<value.s>> ELSE <<>>
    [] value.t = "list" -> value.l
    [] OTHER -> <<>>

DefaultTitle(chapter_num) == "Chapter " \o ToString(chapter_num)

chapter_summary(chapter, chapter_num) ==
  [title |-> DictGet(chapter.title, PyStr(DefaultTitle(chapter_num))).s,
   summary |-> DictGet(chapter.summary, PyStr("No summary available.")).s,
   key_events |-> DictGet(chapter.key_events, PyList(<<>>))]

\* mutant: the two words are looked for in the text as it is written
event_importance_case_sensitive(event) ==
  IF Contains(event, "critical") \/ Contains(event, "important")
  THEN "high" ELSE "medium"

event_importance(event) ==
  IF \E lowered \in {Lower(event)} :
       Contains(lowered, "critical") \/ Contains(lowered, "important")
  THEN "high" ELSE "medium"

\* lines 38-44: for event in key_events: self.add_context_point(...)
add_events(points, events, chapter_num) ==
  points \o [i \in 1..Len(events) |->
              new_point(events[i], chapter_num, event_importance(events[i]), "event")]

\* mutant: developments and hooks are stored with the default importance
add_high_as_medium(points, items, chapter_num, context_type) ==
  points \o [i \in 1..Len(items) |-> new_point(items[i], chapter_num, "medium", context_type)]

\* lines 56-62 and 70-76: one point of importance "high" per item
add_high(points, items, chapter_num, context_type) ==
  points \o [i \in 1..Len(items) |-> new_point(items[i], chapter_num, "high", context_type)]

\* mutant: only a str is taken, a list gives no point
character_dev_items_str_only(chapter) ==
  LET character_dev == DictGet(chapter.character_development, PyStr(""))
  IN IF character_dev.t = "str" /\ character_dev.s # "" THEN <<character_dev.s>>
     ELSE <<>>

\* lines 46-62: a non-empty str gives one point, a list one point per item
character_dev_items(chapter) ==
  LET character_dev == DictGet(chapter.character_development, PyStr(""))
  IN IF character_dev.t = "str" /\ character_dev.s # "" THEN <<character_dev.s>>
     ELSE IF character_dev.t = "list" THEN character_dev.l
     ELSE <<>>

\* lines 32-76: the points of the store once the chapter's points are appended
extract_points(points, chapter, chapter_num) ==
  LET key_events == AsList(DictGet(chapter.key_events, PyList(<<>>)))
      next_chapter_hooks == AsList(DictGet(chapter.next_chapter_hooks, PyList(<<>>)))
      with_events == add_events(points, key_events, chapter_num)
      with_devs == add_high(with_events, character_dev_items(chapter),
                            chapter_num, "character_development")
  IN add_high(with_devs, next_chapter_hooks, chapter_num, "hook")

\* mutant: a summary that is already recorded is kept
upsert_summary_keep_first(summaries, chapter, chapter_num) ==
  [k \in (DOMAIN summaries) \cup {chapter_num} |->
     IF k \in DOMAIN summaries THEN summaries[k]
     ELSE chapter_summary(chapter, chapter_num)]

upsert_summary(summaries, chapter, chapter_num) ==
  [k \in (DOMAIN summaries) \cup {chapter_num} |->
     IF k = chapter_num THEN chapter_summary(chapter, chapter_num) ELSE summaries[k]]

\* mutant: a prune step also drops the summaries of the chapters that have
\* no point left
prune_after_extract_with_summaries(summaries, extracted) ==
  [summaries |->
     IF Len(extracted) > MAX_CONTEXT_ITEMS * 3
     THEN [k \in {j \in DOMAIN summaries :
                    \E i \in 1..Len(prune_context(extracted)) :
                      prune_context(extracted)[i].chapter = j} |-> summaries[k]]
     ELSE summaries,
   points |-> prune_context(extracted), peak |-> Len(extracted)]

\* peak is the number of points when the prune step begins
prune_after_extract(summaries, extracted) ==
  [summaries |-> summaries, points |-> prune_context(extracted), peak |-> Len(extracted)]

\* mutant: update_with_chapter returns without calling _prune_context
update_with_chapter_unpruned(points, summaries, chapter, chapter_num) ==
  [summaries |-> upsert_summary(summaries, chapter, chapter_num),
   points |-> extract_points(points, chapter, chapter_num),
   peak |-> Len(extract_points(points, chapter, chapter_num))]

update_with_chapter(points, summaries, chapter, chapter_num) ==
  prune_after_extract(upsert_summary(summaries, chapter, chapter_num),
                      extract_points(points, chapter, chapter_num))

(***************************************************************************)
(* ContextManager.get_context_for_chapter                                  *)
(***************************************************************************)
EmptyBundle ==
  [previous_chapters |-> <<>>, key_events |-> <<>>,
   character_developments |-> <<>>, open_hooks |-> <<>>]

RECURSIVE previous_chapters(_, _, _)
previous_chapters(summaries, i, chapter_num) ==
  IF i >= chapter_num THEN <<>>
  ELSE (IF i \in DOMAIN summaries THEN <<summaries[i]>> ELSE <<>>)
       \o previous_chapters(summaries, i + 1, chapter_num)

\* mutant: the filter also lets the points of chapter chapter_num through
relevant_points_inclusive(points, chapter_num) ==
  SelectSeq(points, LAMBDA point : point.chapter <= chapter_num)

\* mutant: the filter stops one chapter early
relevant_points_older(points, chapter_num) ==
  SelectSeq(points, LAMBDA point : point.chapter < chapter_num - 1)

relevant_points(points, chapter_num) ==
  SelectSeq(points, LAMBDA point : point.chapter < chapter_num)

contents_of_type(points, context_type) ==
  LET selected == SelectSeq(points, LAMBDA point : point.type = context_type)
  IN [i \in 1..Len(selected) |-> selected[i].content]

\* mutant: the lists are returned uncut
Limit_uncut(items) == items

Limit(items) ==
  SubSeq(items, 1, IF Len(items) < MAX_CONTEXT_ITEMS THEN Len(items) ELSE MAX_CONTEXT_ITEMS)

\* mutant: the first-chapter shortcut tests for chapter 0
get_context_for_chapter_from_zero(points, summaries, chapter_num) ==
  IF chapter_num = 0 THEN EmptyBundle
  ELSE LET sorted == sort_by_weight(relevant_points(points, chapter_num))
       IN [previous_chapters |-> previous_chapters(summaries, 1, chapter_num),
           key_events |-> Limit(contents_of_type(sorted, "event")),
           character_developments |-> Limit(contents_of_type(sorted, "character_development")),
           open_hooks |-> Limit(contents_of_type(sorted, "hook"))]

\* mutant: one cut of the sorted list is shared by the three types
get_context_for_chapter_shared_limit(points, summaries, chapter_num) ==
  IF chapter_num = 1 THEN EmptyBundle
  ELSE LET sorted == Limit(sort_by_weight(relevant_points(points, chapter_num)))
       IN [previous_chapters |-> previous_chapters(summaries, 1, chapter_num),
           key_events |-> contents_of_type(sorted, "event"),
           character_developments |-> contents_of_type(sorted, "character_development"),
           open_hooks |-> contents_of_type(sorted, "hook")]

get_context_for_chapter(points, summaries, chapter_num) ==
  IF chapter_num = 1 THEN EmptyBundle
  ELSE LET sorted == sort_by_weight(relevant_points(points, chapter_num))
       IN [previous_chapters |-> previous_chapters(summaries, 1, chapter_num),
           key_events |-> Limit(contents_of_type(sorted, "event")),
           character_developments |-> Limit(contents_of_type(sorted, "character_development")),
           open_hooks |-> Limit(contents_of_type(sorted, "hook"))]


(***************************************************************************)
(* Chapter dicts.  A chapter dict carries the keys of chapter_schema plus  *)
(* chapter_number; a key the dict lacks is PyAbsent.                       *)
(***************************************************************************)
NoChapter ==
  [chapter_number |-> PyAbsent, title |-> PyAbsent, content |-> PyAbsent,
   summary |-> PyAbsent, key_events |-> PyAbsent,
   character_development |-> PyAbsent, cultural_elements_used |-> PyAbsent,
   genre_elements_used |-> PyAbsent, next_chapter_hooks |-> PyAbsent]

\* k numbered items that take their text from base in turn
Items(base, k) ==
  [i \in 1..k |-> ToString(i) \o ". " \o base[((i - 1) % Len(base)) + 1]]

EventTexts == <<"Hero found the letter", "A CRITICAL clue", "an Important vow">>
DevTexts == <<"Asha grows bolder", "Ravi doubts himself">>
HookTexts == <<"Who sent the letter?", "Will the vow hold?">>

\* list lengths around the two limits of the store
ListSizes == {2, MAX_CONTEXT_ITEMS, MAX_CONTEXT_ITEMS + 1}

\* a chapter whose three fields are lists of k items each
ListChapter(k) ==
  [NoChapter EXCEPT !.title = PyStr("The Letter"),
                    !.summary = PyStr("A letter arrives."),
                    !.key_events = PyList(Items(EventTexts, k)),
                    !.character_development = PyList(Items(DevTexts, k)),
                    !.next_chapter_hooks = PyList(Items(HookTexts, k))]

\* a chapter whose three fields came back as bare strings
StringChapter ==
  [NoChapter EXCEPT !.title = PyStr("The Vow"),
                    !.summary = PyStr("A vow is made."),
                    !.key_events = PyStr("Hero found the letter"),
                    !.character_development = PyStr("Asha grows bolder"),
                    !.next_chapter_hooks = PyStr("Who sent the letter?")]

\* a chapter with more events than one bundle holds, and nothing else to prune
ManyEventsChapter ==
  [NoChapter EXCEPT !.summary = PyStr("Much happens."),
                    !.key_events = PyList(Items(EventTexts, MAX_CONTEXT_ITEMS + 1)),
                    !.character_development = PyStr(""),
                    !.next_chapter_hooks = PyList(<<>>)]

\* a chapter whose three fields came back as empty strings
EmptyStringsChapter ==
  [NoChapter EXCEPT !.title = PyStr("The Silence"),
                    !.summary = PyStr("Nothing happens."),
                    !.key_events = PyStr(""),
                    !.character_development = PyStr(""),
                    !.next_chapter_hooks = PyStr("")]

\* a chapter of many plain events, with one development and one hook
PlainEventsChapter ==
  [NoChapter EXCEPT !.title = PyStr("The Road"),
                    !.summary = PyStr("A long road."),
                    !.key_events = PyList(Items(<<"Hero found the letter">>,
                                                2 * MAX_CONTEXT_ITEMS)),
                    !.character_development = PyStr("Asha grows bolder"),
                    !.next_chapter_hooks = PyList(<<"Who sent the letter?">>)]

ChapterInputs ==
  {ListChapter(k) : k \in ListSizes}
    \cup {StringChapter, EmptyStringsChapter, ManyEventsChapter, PlainEventsChapter,
          NoChapter}

ChapterNums == 1..MaxChapter

Importances == {"low", "medium", "high", "critical"}

\* direct add_context_point calls: any importance, chapter numbers from 0 on
PointInputs ==
  {[content |-> "A note in the margin", chapter |-> c.chapter,
    importance |-> imp, type |-> c.type] :
      imp \in Importances,
      c \in {[chapter |-> 0, type |-> "event"], [chapter |-> MaxChapter, type |-> "general"]}}

\* chapter numbers a caller asks context for
RetrievalNums == 0..(MaxChapter + 1)

(***************************************************************************)
(* Spec: an arbitrary caller of the ContextManager API.                    *)
(***************************************************************************)
Call(op, n, chapter, peak) == [op |-> op, n |-> n, chapter |-> chapter, peak |-> peak]

\* ContextManager.__init__, and a caller that has made no call yet
NewStore ==
  /\ context_points = <<>>
  /\ chapter_summaries = <<>>
  /\ last = Call("__init__", 0, NoChapter, 0)
  /\ result = EmptyBundle
  /\ ops = 0

NoLoop ==
  /\ pc = "api"
  /\ loop_chapter_num = 0
  /\ num_chapters = 0
  /\ selected_genres = <<>>
  /\ story_outline = [chapters |-> <<>>]
  /\ genre_arcs = <<>>
  /\ genre_guidance = <<>>
  /\ loop_chapter = NoChapter
  /\ generation = [response |-> "", path |-> ""]
  /\ save_result = TRUE
  /\ trace = <<>>

Init == NewStore /\ NoLoop

\* context_manager.update_with_chapter(chapter, chapter_num)
UpdateWithChapter(chapter, chapter_num) ==
  /\ ops < MaxOps
  /\ \E updated \in {update_with_chapter(context_points, chapter_summaries,
                                          chapter, chapter_num)} :
       /\ context_points' = updated.points
       /\ chapter_summaries' = updated.summaries
       /\ last' = Call("update_with_chapter", chapter_num, chapter, updated.peak)
  /\ ops' = ops + 1
  /\ UNCHANGED <<result, loop_vars>>

\* context_manager.add_context_point(content, chapter, importance, context_type)
AddContextPoint(point) ==
  /\ ops < MaxOps
  /\ context_points' = add_context_point(context_points, point.content, point.chapter,
                                         point.importance, point.type)
  /\ last' = Call("add_context_point", point.chapter, NoChapter, Len(context_points) + 1)
  /\ ops' = ops + 1
  /\ UNCHANGED <<chapter_summaries, result, loop_vars>>

\* mutant: the points are sorted in place instead of in a filtered copy
GetContextForChapter_in_place(chapter_num) ==
  /\ ops < MaxOps
  /\ result' = get_context_for_chapter(context_points, chapter_summaries, chapter_num)
  /\ last' = Call("get_context_for_chapter", chapter_num, NoChapter, Len(context_points))
  /\ ops' = ops + 1
  /\ context_points' = sort_by_weight(context_points)
  /\ UNCHANGED <<chapter_summaries, loop_vars>>

\* context_manager.get_context_for_chapter(chapter_num)
GetContextForChapter(chapter_num) ==
  /\ ops < MaxOps
  /\ result' = get_context_for_chapter(context_points, chapter_summaries, chapter_num)
  /\ last' = Call("get_context_for_chapter", chapter_num, NoChapter, Len(context_points))
  /\ ops' = ops + 1
  /\ UNCHANGED <<context_points, chapter_summaries, loop_vars>>

Next ==
  \/ \E chapter \in ChapterInputs, chapter_num \in ChapterNums :
       UpdateWithChapter(chapter, chapter_num)
  \/ \E point \in PointInputs : AddContextPoint(point)
  \/ \E chapter_num \in RetrievalNums : GetContextForChapter(chapter_num)

Spec == Init /\ [][Next]_vars


(***************************************************************************)
(* story/chapters.py: ChapterGenerator.  A genre arc is a dict, modelled   *)
(* as a function from its keys; arc[key] on a key the dict lacks raises    *)
(* KeyError.                                                               *)
(***************************************************************************)
\* ChapterGenerator._initialize_genre_arcs: the arc dict of one genre
initial_arc(genre) ==
  LET genre_lower == Lower(genre)
  IN IF Contains(genre_lower, "romance")
     THEN ("relationship_stages" :>
             <<"Initial meeting", "Attraction", "Obstacles", "Growth", "Resolution">>)
          @@ ("current_stage" :> 0) @@ ("emotional_beats" :> <<>>) @@ ("key_moments" :> <<>>)
     ELSE IF Contains(genre_lower, "mystery")
     THEN ("mystery_elements" :>
             <<"Initial problem", "Clues", "Red herrings", "Revelations", "Solution">>)
          @@ ("current_element" :> 0) @@ ("revelations" :> <<>>) @@ ("open_questions" :> <<>>)
     ELSE IF Contains(genre_lower, "adventure")
     THEN ("journey_stages" :>
             <<"Call to adventure", "Challenges", "Trials", "Climactic challenge", "Return">>)
          @@ ("current_stage" :> 0) @@ ("locations" :> <<>>) @@ ("achievements" :> <<>>)
     ELSE IF Contains(genre_lower, "historical") \/ Contains(genre_lower, "period")
     THEN ("historical_elements" :>
             <<"Setting establishment", "Period tensions", "Historical events",
               "Character adaptation", "Resolution">>)
          @@ ("current_element" :> 0) @@ ("historical_references" :> <<>>)
          @@ ("period_authentic_elements" :> <<>>)
     ELSE IF Contains(genre_lower, "fantasy") \/ Contains(genre_lower, "mytholog")
     THEN ("magical_elements" :>
             <<"World rules", "Magic introduction", "Powers development",
               "Magical conflict", "Magical resolution">>)
          @@ ("current_element" :> 0) @@ ("magical_components" :> <<>>)
          @@ ("mythological_references" :> <<>>)
     ELSE ("arc_stages" :>
             <<"Introduction", "Development", "Complication", "Climax", "Resolution">>)
          @@ ("current_stage" :> 0) @@ ("key_elements" :> <<>>) @@ ("genre_markers" :> <<>>)

initialize_genre_arcs(genre_list) ==
  [genre \in Range(genre_list) |-> initial_arc(genre)]

\* the default stub of _get_chapter_outline
default_outline(chapter_num) ==
  [chapter_number |-> PyInt(chapter_num),
   title |-> PyStr(DefaultTitle(chapter_num)),
   summary |-> PyStr("No summary available.")]

\* ChapterGenerator._get_chapter_outline: the first stub with the chapter's number
get_chapter_outline(outline, chapter_num) ==
  LET matching == SelectSeq(outline.chapters,
                            LAMBDA stub : stub.chapter_number = PyInt(chapter_num))
  IN IF matching # <<>> THEN Head(matching) ELSE default_outline(chapter_num)

\* mutant: a chapter at exactly three quarters already counts as late
story_phase_late_at_three_quarters(chapter_num, total_chapters, early, middle, late) ==
  IF 4 * chapter_num <= total_chapters THEN early
  ELSE IF 4 * chapter_num < 3 * total_chapters THEN middle
  ELSE late

\* chapter_num / total_chapters <= 0.25 and <= 0.75: both limits are exact
\* in double precision and the rounding of the quotient is monotone, so the
\* tests are 4 * chapter_num <= total_chapters and
\* 4 * chapter_num <= 3 * total_chapters
story_phase(chapter_num, total_chapters, early, middle, late) ==
  IF 4 * chapter_num <= total_chapters THEN early
  ELSE IF 4 * chapter_num <= 3 * total_chapters THEN middle
  ELSE late

\* min(int(chapter_position * len(stages)), len(stages) - 1)
stage_index(chapter_num, total_chapters, stages) ==
  LET scaled == (chapter_num * Len(stages)) \div total_chapters
  IN IF scaled < Len(stages) - 1 THEN scaled ELSE Len(stages) - 1

StageListKeys ==
  <<"arc_stages", "relationship_stages", "mystery_elements", "journey_stages",
    "historical_elements", "magical_elements">>

\* the first of the stage list keys the arc dict has
stage_list_key(arc) ==
  LET present == SelectSeq(StageListKeys, LAMBDA key : key \in DOMAIN arc)
  IN Head(present)

\* ChapterGenerator._determine_genre_emphasis
determine_genre_emphasis(chapter_num, total_chapters, genre_list, arcs) ==
  LET primary_index == (chapter_num - 1) % Len(genre_list)
      secondary_index == (primary_index + 1) % Len(genre_list)
      primary_genre == genre_list[primary_index + 1]
      secondary_genre == genre_list[secondary_index + 1]
      staged == {genre \in DOMAIN arcs :
                   \E key \in {"arc_stages", "relationship_stages", "mystery_elements"} :
                     key \in DOMAIN arcs[genre]}
      stages_of(genre) ==
        IF "arc_stages" \in DOMAIN arcs[genre] THEN arcs[genre]["arc_stages"]
        ELSE IF "relationship_stages" \in DOMAIN arcs[genre]
        THEN arcs[genre]["relationship_stages"]
        ELSE arcs[genre]["mystery_elements"]
  IN [chapter_position |-> ToString(chapter_num) \o "/" \o ToString(total_chapters),
      narrative_phase |-> story_phase(chapter_num, total_chapters,
                                      "introduction", "complication", "resolution"),
      focus |-> story_phase(chapter_num, total_chapters,
                            "establishing", "developing", "resolving"),
      primary_genre |-> primary_genre,
      secondary_genre |-> secondary_genre,
      genre_stages |->
        [genre \in staged |->
           [current_stage |->
              stages_of(genre)[stage_index(chapter_num, total_chapters,
                                           stages_of(genre)) + 1],
            emphasis |-> IF genre = primary_genre THEN "primary"
                         ELSE IF genre = secondary_genre THEN "secondary"
                         ELSE "background"]],
      blend_recommendation |->
        "This chapter should primarily emphasize " \o primary_genre
        \o " elements while incorporating supporting elements from "
        \o secondary_genre \o "."]

\* ChapterGenerator._validate_chapter_fields, one list field
validate_list_field(value) ==
  CASE value.t = "absent" -> PyList(<<>>)
    [] value.t = "str" -> PyList(IF value.s # "" THEN <<value.s>> ELSE <<>>)
    [] value.t = "none" -> PyList(<<>>)
    [] OTHER -> value

\* ChapterGenerator._validate_chapter_fields
validate_chapter_fields(chapter) ==
  [chapter EXCEPT !.key_events = validate_list_field(@),
                  !.next_chapter_hooks = validate_list_field(@),
                  !.cultural_elements_used = validate_list_field(@),
                  !.genre_elements_used = validate_list_field(@)]

\* lines 364-389: the lists of one genre's arc that one element is appended to, in order
arc_appends(genre, element) ==
  LET genre_lower == Lower(genre)
      element_lower == Lower(element)
      Has(sub) == Contains(element_lower, sub)
      by_genre ==
        IF Contains(genre_lower, "romance") /\ (Has("relationship") \/ Has("romantic"))
        THEN <<"key_moments">> \o (IF Has("emotional") THEN <<"emotional_beats">> ELSE <<>>)
        ELSE IF Contains(genre_lower, "mystery")
                /\ (Has("clue") \/ Has("reveal") \/ Has("mystery"))
        THEN (IF Has("reveal") \/ Has("solution")
              THEN <<"revelations">> ELSE <<"open_questions">>)
        ELSE IF Contains(genre_lower, "adventure")
                /\ (Has("journey") \/ Has("challenge") \/ Has("quest"))
        THEN (IF Has("location") \/ Has("place") THEN <<"locations">> ELSE <<>>)
             \o (IF Has("achieve") \/ Has("overcome") THEN <<"achievements">> ELSE <<>>)
        ELSE <<>>
      generic == IF Contains(element_lower, genre_lower)
                 THEN <<"key_elements", "genre_markers">> ELSE <<>>
  IN by_genre \o generic

RECURSIVE Flatten(_)
Flatten(seqs) == IF seqs = <<>> THEN <<>> ELSE Head(seqs) \o Flatten(Tail(seqs))

\* lines 360-389: every append of the two nested loops, in execution order
all_appends(genre_list, elements) ==
  Flatten([e \in 1..Len(elements) |->
    Flatten([g \in 1..Len(genre_list) |->
      LET keys == arc_appends(genre_list[g], elements[e])
      IN [k \in 1..Len(keys) |->
            [genre |-> genre_list[g], key |-> keys[k], element |-> elements[e]]]])])

\* the appends are made one after the other; the first whose key the arc
\* dict lacks raises KeyError and leaves the earlier appends in place
RECURSIVE apply_appends(_, _, _)
apply_appends(arcs, todo, i) ==
  IF i > Len(todo) THEN [arcs |-> arcs, raised |-> FALSE]
  ELSE IF todo[i].key \notin DOMAIN arcs[todo[i].genre]
  THEN [arcs |-> arcs, raised |-> TRUE]
  ELSE apply_appends([arcs EXCEPT ![todo[i].genre][todo[i].key] = Append(@, todo[i].element)],
                     todo, i + 1)

\* lines 391-403: arc_data["current_stage"] = stage_index, for every genre
set_current_stages(arcs, chapter_num, total_chapters) ==
  [genre \in DOMAIN arcs |->
     LET arc == arcs[genre]
         index == stage_index(chapter_num, total_chapters, arc[stage_list_key(arc)])
     IN [key \in (DOMAIN arc) \cup {"current_stage"} |->
           IF key = "current_stage" THEN index ELSE arc[key]]]

\* ChapterGenerator._update_genre_arcs
update_genre_arcs(arcs, genre_list, chapter, chapter_num, total_chapters) ==
  LET genre_elements == AsList(DictGet(chapter.genre_elements_used, PyList(<<>>)))
      appended == apply_appends(arcs, all_appends(genre_list, genre_elements), 1)
  IN IF appended.raised THEN appended
     ELSE [arcs |-> set_current_stages(appended.arcs, chapter_num, total_chapters),
           raised |-> FALSE]

\* ChapterGenerator._get_genre_trajectory
get_genre_trajectory(next_chapter_num, total_chapters, genre_list, arcs) ==
  IF next_chapter_num > total_chapters
  THEN "This is the conclusion - all genre elements should be resolved."
  ELSE LET primary_genre == genre_list[((next_chapter_num - 1) % Len(genre_list)) + 1]
           arc == arcs[primary_genre]
           stages == arc[stage_list_key(arc)]
           current_stage == IF "current_stage" \in DOMAIN arc THEN arc["current_stage"] ELSE 0
           next_stage_index == IF current_stage + 1 < Len(stages) - 1
                               THEN current_stage + 1 ELSE Len(stages) - 1
       IN "Next chapter should advance the " \o primary_genre
          \o " elements toward " \o stages[next_stage_index + 1] \o "."

\* ChapterGenerator._get_default_genre_elements, one genre
default_genre_element(genre, phase) ==
  LET genre_lower == Lower(genre)
  IN IF Contains(genre_lower, "romance")
     THEN (CASE phase = "introduction" -> "Initial attraction between characters (Romance)"
             [] phase = "development" -> "Relationship complications and growth (Romance)"
             [] OTHER -> "Romantic resolution or commitment (Romance)")
     ELSE IF Contains(genre_lower, "mystery")
     THEN (CASE phase = "introduction" -> "Mystery setup and initial clues (Mystery)"
             [] phase = "development" -> "Investigation progress and red herrings (Mystery)"
             [] OTHER -> "Mystery revelation and resolution (Mystery)")
     ELSE IF Contains(genre_lower, "adventure")
     THEN (CASE phase = "introduction" -> "Journey beginning and initial challenges (Adventure)"
             [] phase = "development" -> "Overcoming obstacles and character growth (Adventure)"
             [] OTHER -> "Final challenge and triumphant return (Adventure)")
     ELSE genre \o " elements appropriate for the " \o phase \o " phase"

\* ChapterGenerator._get_default_genre_elements
get_default_genre_elements(chapter_num, total_chapters, genre_list) ==
  LET phase == story_phase(chapter_num, total_chapters,
                           "introduction", "development", "resolution")
  IN [g \in 1..Len(genre_list) |-> default_genre_element(genre_list[g], phase)]

\* mutant: the fallback takes nothing from the outline stub
fallback_chapter_ignoring_outline(chapter_num, chapter_outline, genre_list, total_chapters) ==
  [chapter_number |-> PyInt(chapter_num),
   title |-> PyStr(DefaultTitle(chapter_num)),
   content |-> PyStr("Error generating chapter content."),
   summary |-> PyStr("Summary not available."),
   key_events |-> PyList(<<>>),
   character_development |-> PyStr("No character development tracked."),
   cultural_elements_used |-> PyList(<<>>),
   genre_elements_used |->
     PyList(get_default_genre_elements(chapter_num, total_chapters, genre_list)),
   next_chapter_hooks |-> PyList(<<>>)]

\* mutant: the fallback leaves character_development empty
fallback_chapter_without_placeholder(chapter_num, chapter_outline, genre_list, total_chapters) ==
  [chapter_number |-> PyInt(chapter_num),
   title |-> DictGet(chapter_outline.title, PyStr(DefaultTitle(chapter_num))),
   content |-> PyStr("Error generating chapter content."),
   summary |-> DictGet(chapter_outline.summary, PyStr("Summary not available.")),
   key_events |-> PyList(<<>>),
   character_development |-> PyStr(""),
   cultural_elements_used |-> PyList(<<>>),
   genre_elements_used |->
     PyList(get_default_genre_elements(chapter_num, total_chapters, genre_list)),
   next_chapter_hooks |-> PyList(<<>>)]

\* lines 181-191: the chapter built when the try block raised
fallback_chapter(chapter_num, chapter_outline, genre_list, total_chapters) ==
  [chapter_number |-> PyInt(chapter_num),
   title |-> DictGet(chapter_outline.title, PyStr(DefaultTitle(chapter_num))),
   content |-> PyStr("Error generating chapter content."),
   summary |-> DictGet(chapter_outline.summary, PyStr("Summary not available.")),
   key_events |-> PyList(<<>>),
   character_development |-> PyStr("No character development tracked."),
   cultural_elements_used |-> PyList(<<>>),
   genre_elements_used |->
     PyList(get_default_genre_elements(chapter_num, total_chapters, genre_list)),
   next_chapter_hooks |-> PyList(<<>>)]

SchemaFields ==
  {"title", "content", "summary", "key_events", "character_development",
   "cultural_elements_used", "genre_elements_used", "next_chapter_hooks"}

\* StructuredOutputParser.parse: the text must hold a JSON object that has
\* every key of the schema, or the parser raises
parse_fails(response) ==
  \/ response.kind # "json"
  \/ \E field \in SchemaFields : response.chapter[field].t = "absent"

\* lines 172-176: the trajectory sentence is appended to the hooks
with_trajectory(chapter, trajectory) ==
  LET hooks == IF chapter.next_chapter_hooks.t = "absent" \/ ~Truthy(chapter.next_chapter_hooks)
               THEN PyList(<<>>) ELSE chapter.next_chapter_hooks
  IN [chapter EXCEPT !.next_chapter_hooks =
        IF "genre_trajectory" \notin Range(hooks.l)
        THEN PyList(Append(hooks.l, trajectory)) ELSE hooks]

\* ChapterGenerator.generate_chapter from line 160 on: what it returns for a
\* response of the model, the genre arcs it leaves, and the path it took
generate_chapter(response, chapter_num, outline, genre_list, arcs) ==
  LET total_chapters == Len(outline.chapters)
      fallback == fallback_chapter(chapter_num, get_chapter_outline(outline, chapter_num),
                                   genre_list, total_chapters)
      validated == validate_chapter_fields(
                     [response.chapter EXCEPT !.chapter_number = PyInt(chapter_num)])
      updated == update_genre_arcs(arcs, genre_list, validated, chapter_num, total_chapters)
  IN IF parse_fails(response)
     THEN [chapter |-> fallback, arcs |-> arcs, path |-> "parse_error"]
     ELSE IF updated.raised
     THEN [chapter |-> fallback, arcs |-> updated.arcs, path |-> "arc_error"]
     ELSE [chapter |-> with_trajectory(validated,
                         get_genre_trajectory(chapter_num + 1, total_chapters,
                                              genre_list, updated.arcs)),
           arcs |-> updated.arcs,
           path |-> "parsed"]

(***************************************************************************)
(* main.py, generate_story / app.py, generate_full_story: the chapter      *)
(* loop.  One run generates num_chapters chapters; the outline has one     *)
(* stub per chapter (story/foundation.py pads or cuts it to that length).  *)
(***************************************************************************)
GenreInputs == {<<"Mystery">>, <<"Drama">>, <<"Romance", "Drama">>}

\* the outline as the model wrote it, as a list of stubs without titles and
\* summaries, and as a list whose numbering starts at 2
OutlineKinds == {"numbered", "bare", "shifted"}

outline_stub(kind, i) ==
  [chapter_number |-> PyInt(IF kind = "shifted" THEN i + 1 ELSE i),
   title |-> IF kind = "bare" THEN PyAbsent ELSE PyStr("Outline title " \o ToString(i)),
   summary |-> IF kind = "bare" THEN PyAbsent ELSE PyStr("Outline summary " \o ToString(i))]

OutlineInput(kind, total_chapters) ==
  [chapters |-> [i \in 1..total_chapters |-> outline_stub(kind, i)]]

\* what the language model answered, as the parser sees it
JsonChapter ==
  [NoChapter EXCEPT !.title = PyStr("The Letter"),
                    !.content = PyStr("A letter arrives at dawn."),
                    !.summary = PyStr("A letter arrives."),
                    !.key_events = PyList(<<"Hero found the letter", "A critical clue">>),
                    !.character_development = PyList(<<"Asha grows bolder">>),
                    !.cultural_elements_used = PyList(<<"Diwali lamps">>),
                    !.genre_elements_used = PyList(<<"A clue in the drawer">>),
                    !.next_chapter_hooks = PyList(<<"Who sent the letter?">>)]

ResponseInputs ==
  { [name |-> "lists", kind |-> "json", chapter |-> JsonChapter],
    [name |-> "strings", kind |-> "json",
     chapter |-> [JsonChapter EXCEPT !.key_events = PyStr("an Important vow"),
                                     !.character_development = PyStr("Ravi doubts himself"),
                                     !.cultural_elements_used = PyNone,
                                     !.genre_elements_used = PyStr("Family duty"),
                                     !.next_chapter_hooks = PyNone]],
    [name |-> "genre_named", kind |-> "json",
     chapter |-> [JsonChapter EXCEPT !.genre_elements_used =
                    PyList(<<"A romantic relationship begins",
                             "The mystery deepens", "Family drama">>)]],
    [name |-> "trajectory_named", kind |-> "json",
     chapter |-> [JsonChapter EXCEPT !.next_chapter_hooks =
                    PyList(<<"genre_trajectory", "Who sent the letter?">>)]],
    [name |-> "no_summary", kind |-> "json",
     chapter |-> [JsonChapter EXCEPT !.summary = PyAbsent]],
    [name |-> "prose", kind |-> "text", chapter |-> NoChapter] }

Log(op) == Append(trace, [op |-> op, n |-> loop_chapter_num])

\* ContextManager.__init__, ChapterGenerator.__init__, and the loop about to
\* start with chapter_num = 1
LoopInit ==
  /\ NewStore
  /\ pc = "get_context"
  /\ loop_chapter_num = 1
  /\ num_chapters \in 1..MaxRunChapters
  /\ selected_genres \in GenreInputs
  /\ \E kind \in OutlineKinds : story_outline = OutlineInput(kind, num_chapters)
  /\ genre_arcs = initialize_genre_arcs(selected_genres)
  /\ genre_guidance = <<>>
  /\ loop_chapter = NoChapter
  /\ generation = [response |-> "", path |-> ""]
  /\ save_result = TRUE
  /\ trace = <<>>

\* generate_chapter, lines 124-131: the previous context and the genre
\* guidance that go into the prompt
RetrieveContext ==
  /\ pc = "get_context"
  /\ result' = get_context_for_chapter(context_points, chapter_summaries, loop_chapter_num)
  /\ genre_guidance' = determine_genre_emphasis(loop_chapter_num, Len(story_outline.chapters),
                                                selected_genres, genre_arcs)
  /\ last' = Call("get_context_for_chapter", loop_chapter_num, NoChapter,
                  Len(context_points))
  /\ trace' = Log("get_context_for_chapter")
  /\ pc' = "invoke"
  /\ UNCHANGED <<store_vars, ops, loop_chapter_num, num_chapters, selected_genres,
                 story_outline, genre_arcs, loop_chapter, generation, save_result>>

\* generate_chapter, line 145: chain.invoke raises (network, quota, ...).
\* The call is before the try block and the loop has no handler, so the
\* exception leaves generate_chapter and the loop.
InvokeRaises ==
  /\ pc = "invoke"
  /\ generation' = [response |-> "raised", path |-> "llm_error"]
  /\ trace' = Log("generate_chapter")
  /\ pc' = "aborted"
  /\ UNCHANGED <<store_vars, caller_vars, loop_chapter_num, num_chapters, selected_genres,
                 story_outline, genre_arcs, genre_guidance, loop_chapter, save_result>>

\* generate_chapter, lines 145-193: chain.invoke returns and the chapter is
\* parsed or replaced by the fallback
GenerateChapter(response) ==
  /\ pc = "invoke"
  /\ \E generated \in {generate_chapter(response, loop_chapter_num, story_outline,
                                        selected_genres, genre_arcs)} :
       /\ loop_chapter' = generated.chapter
       /\ genre_arcs' = generated.arcs
       /\ generation' = [response |-> response.name, path |-> generated.path]
  /\ trace' = Log("generate_chapter")
  /\ pc' = "save"
  /\ UNCHANGED <<store_vars, caller_vars, loop_chapter_num, num_chapters, selected_genres,
                 story_outline, genre_guidance, save_result>>

\* mutant: a failed write ends the run
SaveChapter_failure_aborts(saved) ==
  /\ pc = "save"
  /\ save_result' = saved
  /\ trace' = Log("save_chapter")
  /\ pc' = IF saved THEN "update" ELSE "aborted"
  /\ UNCHANGED <<store_vars, caller_vars, loop_chapter_num, num_chapters, selected_genres,
                 story_outline, genre_arcs, genre_guidance, loop_chapter, generation>>

\* storage.save_chapter(chapter, chapter_num): returns True, or False when
\* the write failed; the loop does not look at the value
SaveChapter(saved) ==
  /\ pc = "save"
  /\ save_result' = saved
  /\ trace' = Log("save_chapter")
  /\ pc' = "update"
  /\ UNCHANGED <<store_vars, caller_vars, loop_chapter_num, num_chapters, selected_genres,
                 story_outline, genre_arcs, genre_guidance, loop_chapter, generation>>

\* mutant: the store is updated only with chapters that were saved
UpdateContext_only_if_saved ==
  /\ pc = "update"
  /\ \E updated \in {update_with_chapter(context_points, chapter_summaries,
                                          loop_chapter, loop_chapter_num)} :
       IF save_result
       THEN /\ context_points' = updated.points
            /\ chapter_summaries' = updated.summaries
            /\ last' = Call("update_with_chapter", loop_chapter_num, loop_chapter,
                            updated.peak)
       ELSE UNCHANGED <<store_vars, last>>
  /\ trace' = Log("update_with_chapter")
  /\ IF loop_chapter_num < num_chapters
     THEN loop_chapter_num' = loop_chapter_num + 1 /\ pc' = "get_context"
     ELSE loop_chapter_num' = loop_chapter_num /\ pc' = "done"
  /\ UNCHANGED <<result, ops, num_chapters, selected_genres, story_outline, genre_arcs,
                 genre_guidance, loop_chapter, generation, save_result>>

\* context_manager.update_with_chapter(chapter, chapter_num), then the next
\* iteration or the end of the loop
UpdateContext ==
  /\ pc = "update"
  /\ \E updated \in {update_with_chapter(context_points, chapter_summaries,
                                          loop_chapter, loop_chapter_num)} :
       /\ context_points' = updated.points
       /\ chapter_summaries' = updated.summaries
       /\ last' = Call("update_with_chapter", loop_chapter_num, loop_chapter, updated.peak)
  /\ trace' = Log("update_with_chapter")
  /\ IF loop_chapter_num < num_chapters
     THEN loop_chapter_num' = loop_chapter_num + 1 /\ pc' = "get_context"
     ELSE loop_chapter_num' = loop_chapter_num /\ pc' = "done"
  /\ UNCHANGED <<result, ops, num_chapters, selected_genres, story_outline, genre_arcs,
                 genre_guidance, loop_chapter, generation, save_result>>

LoopNext ==
  \/ RetrieveContext
  \/ InvokeRaises
  \/ \E response \in ResponseInputs : GenerateChapter(response)
  \/ \E saved \in BOOLEAN : SaveChapter(saved)
  \/ UpdateContext

LoopSpec == LoopInit /\ [][LoopNext]_vars

(***************************************************************************)
(* The chapter loop of main.py and app.py once more, for a story of        *)
(* MaxLongRun chapters.  The language model answers every chapter in the   *)
(* way it answered the first.                                              *)
(***************************************************************************)
LongRunInit ==
  /\ NewStore
  /\ pc = "get_context"
  /\ loop_chapter_num = 1
  /\ num_chapters = MaxLongRun
  /\ selected_genres \in GenreInputs
  /\ \E kind \in OutlineKinds : story_outline = OutlineInput(kind, num_chapters)
  /\ genre_arcs = initialize_genre_arcs(selected_genres)
  /\ genre_guidance = <<>>
  /\ loop_chapter = NoChapter
  /\ generation = [response |-> "", path |-> ""]
  /\ save_result = TRUE
  /\ trace = <<>>

\* generate_chapter with the kind of answer the run has had so far
GenerateChapterAlike(response) ==
  /\ generation.response \in {"", response.name}
  /\ GenerateChapter(response)

LongRunNext ==
  \/ RetrieveContext
  \/ InvokeRaises
  \/ \E response \in ResponseInputs : GenerateChapterAlike(response)
  \/ \E saved \in BOOLEAN : SaveChapter(saved)
  \/ UpdateContext

LongRunSpec == LongRunInit /\ [][LongRunNext]_vars

(***************************************************************************)
(* story/foundation.py: StoryFoundation.generate_story_outline.  An item   *)
(* of the "chapters" array is a dict (t = "dict") or some other JSON value *)
(* (here a string, t = "str"); a dict has or lacks each of its keys.       *)
(***************************************************************************)
NarrativePacing == "Slow-burning"

\* ", ".join(genres)
RECURSIVE JoinGenres(_)
JoinGenres(genre_list) ==
  IF genre_list = <<>> THEN ""
  ELSE IF Len(genre_list) = 1 THEN genre_list[1]
  ELSE genre_list[1] \o ", " \o JoinGenres(Tail(genre_list))

DefaultGenreElements(genre_list) ==
  PyStr("Incorporating elements of " \o JoinGenres(genre_list))

DefaultProgression == PyStr("Moving forward with " \o NarrativePacing \o " pace")

\* lines 169-179 and 195-205: the placeholder stub of position i + 1
placeholder_stub(i, genre_list) ==
  [t |-> "dict", s |-> "",
   chapter_number |-> PyInt(i + 1),
   title |-> PyStr(DefaultTitle(i + 1)),
   summary |-> PyStr("To be determined"),
   genre_elements |-> DefaultGenreElements(genre_list),
   narrative_progression |-> DefaultProgression]

\* for i in range(first, total_chapters): chapter_outlines.append({...})
placeholders(first, total_chapters, genre_list) ==
  [k \in 1..(total_chapters - first) |-> placeholder_stub(first + k - 1, genre_list)]

\* lines 166-182: pad with placeholders, or keep the first total_chapters
pad_or_cut(outlines, total_chapters, genre_list) ==
  IF Len(outlines) < total_chapters
  THEN outlines \o placeholders(Len(outlines), total_chapters, genre_list)
  ELSE IF Len(outlines) > total_chapters THEN SubSeq(outlines, 1, total_chapters)
  ELSE outlines

\* lines 186-189, for one dict
with_stub_defaults(stub, genre_list) ==
  [stub EXCEPT !.genre_elements = DictGet(@, DefaultGenreElements(genre_list)),
               !.narrative_progression = DictGet(@, DefaultProgression)]

\* lines 185-189: the loop assigns into each item in turn; on an item that
\* is not a dict the assignment raises TypeError, with the dicts before it
\* already completed in the list
first_non_dict(outlines) ==
  LET others == {k \in 1..Len(outlines) : outlines[k].t # "dict"}
  IN IF others = {} THEN 0 ELSE CHOOSE k \in others : \A other \in others : k <= other

ensure_stub_fields(outlines, genre_list) ==
  LET stop == first_non_dict(outlines)
  IN [outlines |-> [k \in 1..Len(outlines) |->
                      IF stop = 0 \/ k < stop
                      THEN with_stub_defaults(outlines[k], genre_list)
                      ELSE outlines[k]],
      raised |-> stop # 0]

\* StructuredOutputParser.parse for the schema with the one key "chapters"
outline_parse_fails(response) ==
  response.kind # "json" \/ response.chapters.t = "absent"

\* StoryFoundation._generate_chapter_outlines from line 160 on: the list it
\* returns, or raised when an exception leaves the except block (append on
\* a value that is not a list)
generate_chapter_outlines(response, total_chapters, genre_list) ==
  IF outline_parse_fails(response)
  THEN [outlines |-> placeholders(0, total_chapters, genre_list),
        raised |-> FALSE, path |-> "parse_error"]
  ELSE IF response.chapters.t # "list"
  THEN [outlines |-> <<>>, raised |-> TRUE, path |-> "not_a_list"]
  ELSE LET sized == pad_or_cut(response.chapters.l, total_chapters, genre_list)
           ensured == ensure_stub_fields(sized, genre_list)
       IN IF ensured.raised
          THEN [outlines |-> ensured.outlines
                               \o placeholders(0, total_chapters, genre_list),
                raised |-> FALSE, path |-> "stub_error"]
          ELSE [outlines |-> ensured.outlines, raised |-> FALSE, path |-> "parsed"]

(***************************************************************************)
(* OutlineSpec: main.py up to the chapter loop, one call of                *)
(* generate_story_outline(..., num_chapters, genres).                      *)
(***************************************************************************)
\* a stub as the model writes it: numbered, titled, without the two keys
\* that lines 186-189 add
written_stub(i) ==
  [t |-> "dict", s |-> "",
   chapter_number |-> PyInt(i),
   title |-> PyStr("Outline title " \o ToString(i)),
   summary |-> PyStr("Outline summary " \o ToString(i)),
   genre_elements |-> PyAbsent,
   narrative_progression |-> PyAbsent]

\* an item that is a bare string instead of an object
string_item(i) ==
  [t |-> "str", s |-> "Chapter " \o ToString(i) \o ": the story goes on",
   chapter_number |-> PyAbsent, title |-> PyAbsent, summary |-> PyAbsent,
   genre_elements |-> PyAbsent, narrative_progression |-> PyAbsent]

StubList(k) == PyList([i \in 1..k |-> written_stub(i)])

OutlineResponseNames ==
  {"prose", "no_chapters_key", "null", "one_string", "none", "fewer", "exact", "more",
   "titles_only", "last_is_text"}

\* what the language model answered to the chapter outline prompt
OutlineResponse(name, total_chapters) ==
  [name |-> name,
   kind |-> IF name = "prose" THEN "text" ELSE "json",
   chapters |->
     CASE name \in {"prose", "no_chapters_key"} -> PyAbsent
       [] name = "null" -> PyNone
       [] name = "one_string" -> PyStr("Chapter 1: the letter")
       [] name = "none" -> StubList(0)
       [] name = "fewer" -> StubList(total_chapters - 1)
       [] name = "exact" -> StubList(total_chapters)
       [] name = "more" -> StubList(total_chapters + 2)
       [] name = "titles_only" -> PyList([i \in 1..total_chapters |-> string_item(i)])
       [] OTHER -> PyList([i \in 1..total_chapters |->
                             IF i < total_chapters THEN written_stub(i)
                             ELSE string_item(i)])]

\* main.py: the store is created, then the outline is asked for
OutlineInit ==
  /\ NewStore
  /\ pc = "foundation"
  /\ loop_chapter_num = 0
  /\ num_chapters \in 1..MaxRunChapters
  /\ selected_genres \in GenreInputs
  /\ story_outline = [chapters |-> <<>>]
  /\ genre_arcs = <<>>
  /\ genre_guidance = <<>>
  /\ loop_chapter = NoChapter
  /\ generation = [response |-> "", path |-> ""]
  /\ save_result = TRUE
  /\ trace = <<>>

\* generate_story_outline, lines 62-98: the story foundation, parsed or
\* replaced by the fallback dict
GenerateFoundation(parsed) ==
  /\ pc = "foundation"
  /\ story_outline' = [title |-> IF parsed THEN "The Monsoon Letter" ELSE "Untitled Story",
                       chapters |-> <<>>]
  /\ generation' = [response |-> IF parsed THEN "json" ELSE "prose",
                    path |-> IF parsed THEN "parsed" ELSE "parse_error"]
  /\ pc' = "chapter_outlines"
  /\ UNCHANGED <<store_vars, caller_vars, loop_chapter_num, num_chapters, selected_genres,
                 genre_arcs, genre_guidance, loop_chapter, save_result, trace>>

\* lines 74 and 149: chain.invoke raises; neither call is inside a try block
OutlineInvokeRaises ==
  /\ pc \in {"foundation", "chapter_outlines"}
  /\ generation' = [response |-> "raised", path |-> "llm_error"]
  /\ pc' = "aborted"
  /\ UNCHANGED <<store_vars, caller_vars, loop_chapter_num, num_chapters, selected_genres,
                 story_outline, genre_arcs, genre_guidance, loop_chapter, save_result,
                 trace>>

\* generate_story_outline, lines 100-117: _generate_chapter_outlines and
\* story_outline["chapters"] = chapter_outlines
GenerateChapterOutlines(name) ==
  /\ pc = "chapter_outlines"
  /\ \E generated \in {generate_chapter_outlines(OutlineResponse(name, num_chapters),
                                                  num_chapters, selected_genres)} :
       /\ generation' = [response |-> name, path |-> generated.path]
       /\ IF generated.raised
          THEN pc' = "aborted" /\ UNCHANGED story_outline
          ELSE /\ pc' = "outlined"
               /\ story_outline' = [story_outline EXCEPT !.chapters = generated.outlines]
  /\ UNCHANGED <<store_vars, caller_vars, loop_chapter_num, num_chapters, selected_genres,
                 genre_arcs, genre_guidance, loop_chapter, save_result, trace>>

OutlineNext ==
  \/ \E parsed \in BOOLEAN : GenerateFoundation(parsed)
  \/ OutlineInvokeRaises
  \/ \E name \in OutlineResponseNames : GenerateChapterOutlines(name)

OutlineSpec == OutlineInit /\ [][OutlineNext]_vars

(***************************************************************************)
(* ValidateSpec: _validate_chapter_fields applied to a parsed chapter, and *)
(* applied again to what it returned.                                      *)
(***************************************************************************)
ListFields ==
  {"key_events", "next_chapter_hooks", "cultural_elements_used", "genre_elements_used"}

\* the JSON values a field of the parsed output can hold, and a missing key
RawValues ==
  {PyAbsent, PyNone, PyStr(""), PyStr("Hero found the letter"), PyList(<<>>),
   PyList(<<"Hero found the letter", "A critical clue">>), PyInt(7), PyDict}

RawChapters ==
  {[JsonChapter EXCEPT !.key_events = events, !.next_chapter_hooks = hooks,
                       !.cultural_elements_used = cultural,
                       !.genre_elements_used = elements] :
     events \in RawValues, hooks \in RawValues, cultural \in RawValues,
     elements \in RawValues}

ValidateInit ==
  /\ NewStore
  /\ pc = "parsed"
  /\ loop_chapter \in RawChapters
  /\ loop_chapter_num = 1
  /\ num_chapters = 1
  /\ selected_genres = <<"Drama">>
  /\ story_outline = OutlineInput("numbered", 1)
  /\ genre_arcs = initialize_genre_arcs(<<"Drama">>)
  /\ genre_guidance = <<>>
  /\ generation = [response |-> "json", path |-> ""]
  /\ save_result = TRUE
  /\ trace = <<>>

\* chapter = self._validate_chapter_fields(chapter); last keeps the argument
ValidateChapterFields ==
  /\ pc \in {"parsed", "validated"}
  /\ loop_chapter' = validate_chapter_fields(loop_chapter)
  /\ last' = Call("_validate_chapter_fields", loop_chapter_num, loop_chapter, 0)
  /\ pc' = IF pc = "parsed" THEN "validated" ELSE "revalidated"
  /\ UNCHANGED <<store_vars, result, ops, loop_chapter_num, num_chapters, selected_genres,
                 story_outline, genre_arcs, genre_guidance, generation, save_result,
                 trace>>

ValidateNext == ValidateChapterFields

ValidateSpec == ValidateInit /\ [][ValidateNext]_vars

(***************************************************************************)
(* Properties of the store under an arbitrary caller (Spec).               *)
(***************************************************************************)
\* the bundle a caller would get for chapter n in the current state
Bundle(n) == get_context_for_chapter(context_points, chapter_summaries, n)

Count(seq, x) == Cardinality({i \in 1..Len(seq) : seq[i] = x})

\* every item of seq occurs in bundle_list at least as often as in seq
AllIncluded(seq, bundle_list) ==
  \A x \in Range(seq) : Count(seq, x) <= Count(bundle_list, x)

StoredOfType(context_type, n) ==
  {i \in 1..Len(context_points) :
     context_points[i].type = context_type /\ context_points[i].chapter < n}

\* C1: when update_with_chapter returns, the store holds at most
\* 3*MAX_CONTEXT_ITEMS points; if more than 3*MAX_CONTEXT_ITEMS points were
\* there when the prune step began, exactly 2*MAX_CONTEXT_ITEMS are left, and
\* otherwise (also at exactly 3*MAX_CONTEXT_ITEMS) the prune step removes nothing.
C1_PruneBound ==
  [][last'.op = "update_with_chapter" =>
       LET extracted == extract_points(context_points, last'.chapter, last'.n)
       IN /\ Len(context_points') <= 3 * MAX_CONTEXT_ITEMS
          /\ Len(extracted) > 3 * MAX_CONTEXT_ITEMS =>
               Len(context_points') = 2 * MAX_CONTEXT_ITEMS
          /\ Len(extracted) <= 3 * MAX_CONTEXT_ITEMS => context_points' = extracted]_vars

\* an update whose prune step found more than 3*MAX_CONTEXT_ITEMS points
C1_Witness ==
  /\ last.op = "update_with_chapter"
  /\ last.peak > 3 * MAX_CONTEXT_ITEMS
  /\ Len(context_points) = 2 * MAX_CONTEXT_ITEMS

\* C2 as claimed: in every reachable state the store holds at most
\* 3*MAX_CONTEXT_ITEMS points.
C2_NeverExceeds == Len(context_points) <= 3 * MAX_CONTEXT_ITEMS

\* C2 as amended: the store holds at most 3*MAX_CONTEXT_ITEMS points whenever
\* update_with_chapter returns; add_context_point appends exactly one point
\* and never prunes, so the count may exceed the limit between such returns.
C2_BoundAtReturn ==
  [][/\ last'.op = "update_with_chapter" =>
          Len(context_points') <= 3 * MAX_CONTEXT_ITEMS
     /\ last'.op = "add_context_point" =>
          /\ Len(context_points') = Len(context_points) + 1
          /\ SubSeq(context_points', 1, Len(context_points)) = context_points]_vars

\* a direct add_context_point call has left more than 3*MAX_CONTEXT_ITEMS points
C2_Witness ==
  /\ last.op = "add_context_point"
  /\ Len(context_points) > 3 * MAX_CONTEXT_ITEMS

\* C3: for every chapter number, each of key_events, character_developments
\* and open_hooks of the bundle has at most MAX_CONTEXT_ITEMS entries.
C3_BoundedRetrieval ==
  \A n \in RetrievalNums :
    \E bundle \in {Bundle(n)} :
      /\ Len(bundle.key_events) <= MAX_CONTEXT_ITEMS
      /\ Len(bundle.character_developments) <= MAX_CONTEXT_ITEMS
      /\ Len(bundle.open_hooks) <= MAX_CONTEXT_ITEMS

\* more than MAX_CONTEXT_ITEMS earlier events are stored and the bundle is cut
C3_Witness ==
  /\ Cardinality(StoredOfType("event", MaxChapter + 1)) > MAX_CONTEXT_ITEMS
  /\ Len(Bundle(MaxChapter + 1).key_events) = MAX_CONTEXT_ITEMS
  /\ Bundle(MaxChapter + 1).open_hooks # <<>>

\* C4: after update_with_chapter(c, i) the bundle for chapter i+1 holds c's
\* summary record; and for every n the bundle for chapter n holds only
\* summaries of chapters below n and only contents of points whose chapter is
\* below n, also when chapters n and later are already recorded.
C4_MonotonicVisibility ==
  /\ last.op = "update_with_chapter" =>
       chapter_summary(last.chapter, last.n) \in Range(Bundle(last.n + 1).previous_chapters)
  /\ \A n \in RetrievalNums :
       \E bundle \in {Bundle(n)} :
         /\ \A rec \in Range(bundle.previous_chapters) :
              \E k \in DOMAIN chapter_summaries : k < n /\ chapter_summaries[k] = rec
         /\ Len(bundle.previous_chapters)
              <= Cardinality({k \in DOMAIN chapter_summaries : k < n})
         /\ \A x \in Range(bundle.key_events) :
              \E i \in StoredOfType("event", n) : context_points[i].content = x
         /\ \A x \in Range(bundle.character_developments) :
              \E i \in StoredOfType("character_development", n) :
                context_points[i].content = x
         /\ \A x \in Range(bundle.open_hooks) :
              \E i \in StoredOfType("hook", n) : context_points[i].content = x
         /\ Len(bundle.key_events) <= Cardinality(StoredOfType("event", n))
         /\ Len(bundle.character_developments)
              <= Cardinality(StoredOfType("character_development", n))
         /\ Len(bundle.open_hooks) <= Cardinality(StoredOfType("hook", n))

\* chapter 1 is recorded after a later chapter: the bundle for chapter 2
\* holds chapter 1 and nothing of the later one
C4_Witness ==
  /\ last.op = "update_with_chapter"
  /\ last.n = 1
  /\ \E k \in DOMAIN chapter_summaries : k >= 2
  /\ \E i \in 1..Len(context_points) : context_points[i].chapter >= 2
  /\ Bundle(2).previous_chapters = <<chapter_summaries[1]>>
  /\ Bundle(2).key_events # <<>>

\* C5 as claimed: after update_with_chapter(c, i) the bundle for chapter i+1
\* includes every point extracted from c.
C5_AllExtractedVisible ==
  last.op = "update_with_chapter" =>
    \E bundle \in {Bundle(last.n + 1)} :
      /\ AllIncluded(AsList(DictGet(last.chapter.key_events, PyList(<<>>))),
                     bundle.key_events)
      /\ AllIncluded(character_dev_items(last.chapter), bundle.character_developments)
      /\ AllIncluded(AsList(DictGet(last.chapter.next_chapter_hooks, PyList(<<>>))),
                     bundle.open_hooks)

\* C5 as amended: after update_with_chapter(c, i) whose prune step discarded
\* nothing, the bundle for chapter i+1 includes every point of c of a type
\* of which the store holds at most MAX_CONTEXT_ITEMS points with chapter <= i.
C5_VisibleWithinLimits ==
  (last.op = "update_with_chapter" /\ last.peak <= 3 * MAX_CONTEXT_ITEMS) =>
    \E bundle \in {Bundle(last.n + 1)} :
      /\ Cardinality(StoredOfType("event", last.n + 1)) <= MAX_CONTEXT_ITEMS =>
           AllIncluded(AsList(DictGet(last.chapter.key_events, PyList(<<>>))),
                       bundle.key_events)
      /\ Cardinality(StoredOfType("character_development", last.n + 1)) <= MAX_CONTEXT_ITEMS =>
           AllIncluded(character_dev_items(last.chapter), bundle.character_developments)
      /\ Cardinality(StoredOfType("hook", last.n + 1)) <= MAX_CONTEXT_ITEMS =>
           AllIncluded(AsList(DictGet(last.chapter.next_chapter_hooks, PyList(<<>>))),
                       bundle.open_hooks)

\* a chapter with points of all three types is recorded after another chapter
\* and everything stays within the limits
C5_Witness ==
  /\ last.op = "update_with_chapter"
  /\ last.peak <= 3 * MAX_CONTEXT_ITEMS
  /\ Truthy(last.chapter.key_events)
  /\ Truthy(last.chapter.character_development)
  /\ Truthy(last.chapter.next_chapter_hooks)
  /\ \E i \in 1..Len(context_points) : context_points[i].chapter # last.n
  /\ \A context_type \in {"event", "character_development", "hook"} :
       Cardinality(StoredOfType(context_type, last.n + 1)) \in 1..MAX_CONTEXT_ITEMS

\* C6: the bundle for chapter 1 is empty in all four fields, whatever the
\* store holds.
C6_FirstChapterIsolation == Bundle(1) = EmptyBundle

\* a summary is recorded and a point of a chapter below 1 is stored
C6_Witness ==
  /\ chapter_summaries # <<>>
  /\ \E i \in 1..Len(context_points) :
       context_points[i].chapter < 1 /\ context_points[i].type = "event"

\* C7: get_context_for_chapter leaves context_points (elements, weights,
\* order) and chapter_summaries as they were, and what it returns is
\* determined by the store and the chapter number.
C7_RetrievalReadOnly ==
  [][last'.op = "get_context_for_chapter" =>
       /\ context_points' = context_points
       /\ chapter_summaries' = chapter_summaries
       /\ result' = get_context_for_chapter(context_points', chapter_summaries', last'.n)]_vars

\* a bundle was retrieved from a store whose points are not in sorted order
C7_Witness ==
  /\ last.op = "get_context_for_chapter"
  /\ last.n > 1
  /\ result.key_events # <<>>
  /\ context_points # sort_by_weight(context_points)

\* the points of one type that a call appended, before the prune step
AddedOfType(before, extracted, context_type) ==
  SelectSeq(SubSeq(extracted, Len(before) + 1, Len(extracted)),
            LAMBDA point : point.type = context_type)

\* one point holding the whole string for a non-empty str, none for ""
OnePointPerString(value, added, chapter_num) ==
  value.t = "str" =>
    IF value.s # ""
    THEN /\ Len(added) = 1
         /\ added[1].content = value.s
         /\ added[1].chapter = chapter_num
    ELSE added = <<>>

\* C11: update_with_chapter with key_events a bare non-empty string appends
\* exactly one event point whose content is the whole string, and none for
\* the empty string; likewise next_chapter_hooks and hook points.  The
\* appended points are in the store at return unless the prune step fired.
C11_StringNormalization ==
  [][last'.op = "update_with_chapter" =>
       LET extracted == extract_points(context_points, last'.chapter, last'.n)
       IN /\ OnePointPerString(DictGet(last'.chapter.key_events, PyList(<<>>)),
                               AddedOfType(context_points, extracted, "event"), last'.n)
          /\ OnePointPerString(DictGet(last'.chapter.next_chapter_hooks, PyList(<<>>)),
                               AddedOfType(context_points, extracted, "hook"), last'.n)
          /\ last'.peak = Len(extracted)
          /\ last'.peak <= 3 * MAX_CONTEXT_ITEMS => context_points' = extracted]_vars

\* the chapter of bare strings left one event, one development and one hook
\* point, and the chapter of empty strings recorded after it left none
C11_Witness ==
  /\ last.op = "update_with_chapter"
  /\ last.chapter = EmptyStringsChapter
  /\ Len(context_points) = 3
  /\ \E i \in 1..3 : /\ context_points[i].type = "event"
                     /\ context_points[i].content = "Hero found the letter"
  /\ \E i \in 1..3 : /\ context_points[i].type = "hook"
                     /\ context_points[i].content = "Who sent the letter?"

\* C12: every stored point has the weight of its importance: low 1,
\* medium 2, high 3, critical CRITICAL_CONTEXT_WEIGHT, whichever call stored
\* it and whatever else the store holds.
C12_WeightByImportance ==
  \A i \in 1..Len(context_points) :
    \E point \in {context_points[i]} :
      /\ point.importance = "low" => point.weight = 1
      /\ point.importance = "medium" => point.weight = 2
      /\ point.importance = "high" => point.weight = 3
      /\ point.importance = "critical" => point.weight = CRITICAL_CONTEXT_WEIGHT
      /\ point.importance \in Importances

\* direct calls stored a critical point after a low one
C12_Witness ==
  /\ last.op = "add_context_point"
  /\ Len(context_points) = 2
  /\ context_points[1].importance = "low" /\ context_points[1].weight = 1
  /\ context_points[2].importance = "critical"
  /\ context_points[2].weight = CRITICAL_CONTEXT_WEIGHT

\* C13: chapter_summaries maps a chapter number to one record; after
\* update_with_chapter(c, n) the record of n is c's title, summary and
\* key_events (or their defaults) and every other record is as before; a
\* repeated call with the same c and n leaves the mapping as it is; and no
\* step removes a recorded number.
C13_UpsertSummary ==
  [][/\ DOMAIN chapter_summaries \subseteq DOMAIN chapter_summaries'
     /\ last'.op = "update_with_chapter" =>
          /\ DOMAIN chapter_summaries' = DOMAIN chapter_summaries \cup {last'.n}
          /\ chapter_summaries'[last'.n] =
               [title |-> DictGet(last'.chapter.title, PyStr(DefaultTitle(last'.n))).s,
                summary |-> DictGet(last'.chapter.summary,
                                    PyStr("No summary available.")).s,
                key_events |-> DictGet(last'.chapter.key_events, PyList(<<>>))]
          /\ \A k \in DOMAIN chapter_summaries \ {last'.n} :
               chapter_summaries'[k] = chapter_summaries[k]
          /\ (last.op = "update_with_chapter" /\ last.chapter = last'.chapter
                /\ last.n = last'.n) => chapter_summaries' = chapter_summaries
     /\ last'.op # "update_with_chapter" => chapter_summaries' = chapter_summaries]_vars

\* the same chapter was recorded twice under one number: its points are
\* stored twice, its summary once
C13_Witness ==
  /\ last.op = "update_with_chapter"
  /\ last.chapter = StringChapter
  /\ Len(context_points) = 6
  /\ \A i \in 1..3 : context_points[i] = context_points[i + 3]
  /\ DOMAIN chapter_summaries = {last.n}
  /\ chapter_summaries[last.n].title = "The Vow"

\* p ranks above q: higher weight, or equal weight and a more recent chapter
RanksAbove(p, q) ==
  p.weight > q.weight \/ (p.weight = q.weight /\ p.chapter > q.chapter)

\* kept holds nothing that all did not hold, as often at most
KeptFrom(kept, all) == \A x \in Range(kept) : Count(kept, x) <= Count(all, x)

Discarded(kept, all) == {x \in Range(all) : Count(kept, x) < Count(all, x)}

\* what an update_with_chapter step did to the points: all is the list
\* when the prune step began, kept the list at return
PruneStep ==
  last'.op = "update_with_chapter" =>
    \E all \in {extract_points(context_points, last'.chapter, last'.n)} :
      \E kept \in {context_points'} :
        /\ KeptFrom(kept, all)
        /\ last'.peak > 3 * MAX_CONTEXT_ITEMS =>
             /\ Len(kept) = 2 * MAX_CONTEXT_ITEMS
             /\ \A i \in 1..(Len(kept) - 1) : ~RanksAbove(kept[i + 1], kept[i])
             /\ \A x \in Discarded(kept, all) : ~RanksAbove(x, kept[Len(kept)])

StoreFromCall ==
  /\ last'.op = "add_context_point" =>
       SubSeq(context_points', 1, Len(context_points)) = context_points
  /\ last'.op = "get_context_for_chapter" => context_points' = context_points

BundlesFromStore ==
  \E contents \in {{context_points[i].content : i \in 1..Len(context_points)}} :
    \A n \in RetrievalNums :
      \E bundle \in {Bundle(n)} :
        /\ Range(bundle.key_events) \subseteq contents
        /\ Range(bundle.character_developments) \subseteq contents
        /\ Range(bundle.open_hooks) \subseteq contents

\* C20: when the prune step of update_with_chapter fires, the store is left
\* with 2*MAX_CONTEXT_ITEMS of the points it held, in descending order of
\* (weight, chapter), and no discarded point ranks above a kept one: none
\* has a higher weight, and none of equal weight has a more recent chapter.
\* What the store holds after any call comes from the store before it and
\* the call's arguments, and a bundle holds only contents of stored points,
\* so a discarded point does not come back.
C20_PruneKeepsTopRanked ==
  /\ [][PruneStep /\ StoreFromCall]_vars
  /\ []BundlesFromStore

\* the prune step fired on points of two chapters: a medium point of the
\* later chapter was discarded and high points of the earlier one were kept
C20_Witness ==
  /\ last.op = "update_with_chapter"
  /\ last.peak > 3 * MAX_CONTEXT_ITEMS
  /\ Len(context_points) = 2 * MAX_CONTEXT_ITEMS
  /\ \E i \in 1..Len(context_points) : context_points[i].chapter < last.n
  /\ \E i \in 1..Len(context_points) : context_points[i].chapter = last.n
  /\ \A i \in 1..Len(context_points) : context_points[i].weight = 3
  /\ Truthy(last.chapter.key_events)
  /\ event_importance(AsList(last.chapter.key_events)[1]) = "medium"

\* the summaries recorded for chapters 1..n-1, in increasing chapter number
ReferenceSummaries(n) ==
  \E recorded \in {{k \in DOMAIN chapter_summaries : 1 <= k /\ k < n}} :
    \E listed \in {Bundle(n).previous_chapters} :
      /\ Len(listed) = Cardinality(recorded)
      /\ \A k \in recorded :
           listed[Cardinality({j \in recorded : j <= k})] = chapter_summaries[k]

\* the (weight, chapter) pairs from (highest, n-1) down to (lowest, low),
\* the weight counting first
DescendingKeys(highest, lowest, n, low) ==
  [k \in 1..((highest - lowest + 1) * (n - low)) |->
     [weight |-> highest - ((k - 1) \div (n - low)),
      chapter |-> (n - 1) - ((k - 1) % (n - low))]]

\* the contents of the points of one type and one (weight, chapter) pair,
\* in the order the store holds them
ContentsAt(context_type, key) ==
  contents_of_type(SelectSeq(context_points,
                             LAMBDA point : /\ point.weight = key.weight
                                            /\ point.chapter = key.chapter),
                   context_type)

\* the first MAX_CONTEXT_ITEMS contents of one type among the points with
\* chapter < n, taken in descending order of (weight, chapter)
ReferenceContents(context_type, n) ==
  LET weights == {context_points[i].weight : i \in 1..Len(context_points)} \cup {1}
      chapters == {context_points[i].chapter : i \in 1..Len(context_points)} \cup {n - 1}
      highest == CHOOSE w \in weights : \A v \in weights : v <= w
      lowest == CHOOSE w \in weights : \A v \in weights : w <= v
      low == CHOOSE c \in chapters : \A d \in chapters : c <= d
      keys == DescendingKeys(highest, lowest, n, low)
      ranked == Flatten([k \in 1..Len(keys) |-> ContentsAt(context_type, keys[k])])
  IN SubSeq(ranked, 1, IF Len(ranked) > MAX_CONTEXT_ITEMS
                       THEN MAX_CONTEXT_ITEMS ELSE Len(ranked))

ReferenceBundle(n) ==
  \E bundle \in {Bundle(n)} :
    /\ ReferenceSummaries(n)
    /\ bundle.key_events = ReferenceContents("event", n)
    /\ bundle.character_developments = ReferenceContents("character_development", n)
    /\ bundle.open_hooks = ReferenceContents("hook", n)

\* C21: for n > 1 the bundle of get_context_for_chapter(n) is the reference
\* computation: previous_chapters lists the summaries recorded for chapters
\* 1..n-1 in increasing chapter number, and each of key_events,
\* character_developments and open_hooks holds the contents of the first
\* MAX_CONTEXT_ITEMS points of its type among the points with chapter < n in
\* descending order of (weight, chapter), each list cut on its own; a call
\* of get_context_for_chapter returns that bundle.
C21_ReferenceRetrieval ==
  /\ \A n \in 2..(MaxChapter + 1) : ReferenceBundle(n)
  /\ (last.op = "get_context_for_chapter" /\ last.n > 1) => result = Bundle(last.n)

\* the store holds points of two chapters after a prune step; in the bundle
\* for the chapter after them the developments are cut at MAX_CONTEXT_ITEMS
\* and the events, fewer than that, are all there
C21_Witness ==
  /\ DOMAIN chapter_summaries = {1, 2}
  /\ Len(context_points) = 2 * MAX_CONTEXT_ITEMS
  /\ \E i, j \in 1..Len(context_points) :
       /\ context_points[i].chapter = 1 /\ context_points[j].chapter = 2
       /\ context_points[i].weight = context_points[j].weight
  /\ Cardinality(StoredOfType("event", 3)) < MAX_CONTEXT_ITEMS
  /\ Cardinality(StoredOfType("character_development", 3)) > MAX_CONTEXT_ITEMS
  /\ Len(Bundle(3).character_developments) = MAX_CONTEXT_ITEMS
  /\ Bundle(3).character_developments[1] # context_points[1].content
  /\ Len(Bundle(3).key_events) = Cardinality(StoredOfType("event", 3))
  /\ Len(Bundle(3).previous_chapters) = 2

\* a chapter number that does not advance: it is recorded already, or a
\* later chapter is
NonAdvancing(chapter_num) ==
  \E k \in DOMAIN chapter_summaries : k >= chapter_num

\* C22: misuse of the store is rejected: no call get_context_for_chapter(n)
\* with n <= 0 returns a bundle, and a call of update_with_chapter with a
\* chapter number that does not advance leaves the points, their weights
\* and the summaries as they were.
C22_MisuseRejected ==
  [][/\ ~(last'.op = "get_context_for_chapter" /\ last'.n <= 0)
     /\ (last'.op = "update_with_chapter" /\ NonAdvancing(last'.n)) =>
          /\ context_points' = context_points
          /\ chapter_summaries' = chapter_summaries]_vars

\* chapter 1 was recorded after chapter 2: the call returned, the summary of
\* chapter 1 is there and its points follow those of chapter 2 in the store
C22_Witness ==
  /\ last.op = "update_with_chapter"
  /\ last.n = 1
  /\ last.chapter = StringChapter
  /\ DOMAIN chapter_summaries = {1, 2}
  /\ Len(context_points) > 3
  /\ context_points[1].chapter = 2
  /\ \A i \in (Len(context_points) - 2)..Len(context_points) :
       context_points[i].chapter = 1

\* a point as add_context_point creates it for the call just made
CreatedByCall(point, call) ==
  /\ DOMAIN point = {"content", "chapter", "importance", "type", "weight"}
  /\ point.chapter = call.n
  /\ point.weight = weight_map(Lower(point.importance))
  /\ call.op = "update_with_chapter" =>
       /\ point.type \in {"event", "character_development", "hook"}
       /\ point.importance \in {"medium", "high"}

\* what one step does to the points: a point that is in the store after
\* the step more often than before it was created by the call, with the
\* call's chapter number and the weight of its importance; every other
\* point is one the store held, field for field
AppendOrPrune ==
  \E before \in {context_points} :
    \E after \in {context_points'} :
      /\ \A x \in Range(after) :
           \/ Count(after, x) <= Count(before, x)
           \/ last'.op \in {"update_with_chapter", "add_context_point"}
                /\ CreatedByCall(x, last')
      /\ last'.op = "add_context_point" => after = Append(before, after[Len(after)])
      /\ last'.op = "get_context_for_chapter" => after = before
      /\ (last'.op = "update_with_chapter" /\ last'.peak <= 3 * MAX_CONTEXT_ITEMS) =>
           /\ Len(after) = last'.peak
           /\ SubSeq(after, 1, Len(before)) = before
      /\ (last'.op = "update_with_chapter" /\ last'.peak > 3 * MAX_CONTEXT_ITEMS) =>
           Len(after) < last'.peak

WeightOfImportance ==
  \A i \in 1..Len(context_points) :
    context_points[i].weight = weight_map(Lower(context_points[i].importance))

\* C23: context points are immutable and the store is append-or-prune only:
\* in every step a point that stays in the store keeps its content, chapter,
\* type, importance and weight, the points a step adds are newly created by
\* the call, a prune step drops whole points, and the weight of every stored
\* point is the value of its importance.
C23_PointsImmutable ==
  /\ [][AppendOrPrune]_vars
  /\ []WeightOfImportance

\* a critical point added directly for a later chapter went through the
\* prune step of an update and stands first in the store, as it was created
C23_Witness ==
  /\ last.op = "update_with_chapter"
  /\ last.peak > 3 * MAX_CONTEXT_ITEMS
  /\ Len(context_points) = 2 * MAX_CONTEXT_ITEMS
  /\ context_points[1] = [content |-> "A note in the margin", chapter |-> MaxChapter,
                          importance |-> "critical", type |-> "general",
                          weight |-> CRITICAL_CONTEXT_WEIGHT]
  /\ last.n < MaxChapter

\* the weights update_with_chapter gives: 2 or 3, and 2 only to events
UpdateWeights(points) ==
  \A i \in 1..Len(points) :
    /\ points[i].weight \in {2, 3}
    /\ points[i].weight = 2 => points[i].type = "event"

\* no development or hook was dropped while an event of weight 2 was kept
HighBeforeMedium(kept, all) ==
  (\E i \in 1..Len(kept) : kept[i].weight = 2 /\ kept[i].type = "event") =>
    \A x \in Discarded(kept, all) : x.type \notin {"character_development", "hook"}

\* C25: every point that update_with_chapter creates has weight 2 or 3, and
\* only event points have weight 2: developments and hooks have weight 3.
\* So when every point of the store came from update_with_chapter, a prune
\* step that keeps an event of weight 2 has dropped no development and no
\* hook.
C25_UpdateWeights ==
  [][last'.op = "update_with_chapter" =>
       \E all \in {extract_points(context_points, last'.chapter, last'.n)} :
         /\ UpdateWeights(SubSeq(all, Len(context_points) + 1, Len(all)))
         /\ UpdateWeights(all) => HighBeforeMedium(context_points', all)]_vars

\* two chapters of many plain events went through the prune step: events of
\* weight 2 were dropped, others were kept, and the developments and hooks
\* of both chapters are in the store
C25_Witness ==
  /\ last.op = "update_with_chapter"
  /\ last.peak > 3 * MAX_CONTEXT_ITEMS
  /\ Len(context_points) = 2 * MAX_CONTEXT_ITEMS
  /\ UpdateWeights(context_points)
  /\ context_points[Len(context_points)].weight = 2
  /\ Cardinality({i \in 1..Len(context_points) :
                    context_points[i].type = "character_development"}) = 2
  /\ Cardinality({i \in 1..Len(context_points) : context_points[i].type = "hook"}) = 2

\* word, in lower case, occurs in text in some mix of upper and lower case
MentionsAnyCase(text, word) ==
  \E start \in 1..(Len(text) - Len(word) + 1) :
    \A j \in 1..Len(word) :
      LowerChar(SubSeq(text, start + j - 1, start + j - 1)) = SubSeq(word, j, j)

\* the event points are the items, one each and in order, with importance
\* high for the items that mention one of the two words and medium for the rest
EventPerItem(items, added, chapter_num) ==
  /\ Len(added) = Len(items)
  /\ \A i \in 1..Len(items) :
       /\ added[i].content = items[i]
       /\ added[i].chapter = chapter_num
       /\ added[i].importance =
            IF MentionsAnyCase(items[i], "critical") \/ MentionsAnyCase(items[i], "important")
            THEN "high" ELSE "medium"
       /\ added[i].importance \notin {"low", "critical"}

\* C26: for each item of a chapter's key_events, update_with_chapter creates
\* one event point of that chapter whose importance is high when the text
\* contains "critical" or "important" in any letter case and medium
\* otherwise; it creates no event point of importance low or critical.
C26_EventImportance ==
  [][last'.op = "update_with_chapter" =>
       \E all \in {extract_points(context_points, last'.chapter, last'.n)} :
         /\ EventPerItem(AsList(DictGet(last'.chapter.key_events, PyList(<<>>))),
                         AddedOfType(context_points, all, "event"), last'.n)
         /\ last'.peak <= 3 * MAX_CONTEXT_ITEMS => context_points' = all]_vars

\* a chapter whose events are written in lower, upper and mixed case: the
\* first is stored as medium, "A CRITICAL clue" and "an Important vow" as high
C26_Witness ==
  /\ last.op = "update_with_chapter"
  /\ last.chapter = ListChapter(MAX_CONTEXT_ITEMS)
  /\ Len(context_points) = 3 * MAX_CONTEXT_ITEMS
  /\ context_points[1].content = "1. Hero found the letter"
  /\ context_points[1].importance = "medium"
  /\ context_points[2].content = "2. A CRITICAL clue"
  /\ context_points[2].importance = "high"
  /\ context_points[3].content = "3. an Important vow"
  /\ context_points[3].importance = "high"

\* the development points a value of character_development gives
DevelopmentPerValue(value, added, chapter_num) ==
  /\ (value.t = "str" /\ value.s # "") =>
       /\ Len(added) = 1
       /\ added[1].content = value.s
  /\ value.t = "list" =>
       /\ Len(added) = Len(value.l)
       /\ \A i \in 1..Len(value.l) : added[i].content = value.l[i]
  /\ (value.t = "absent" \/ value = PyStr("")) => added = <<>>
  /\ \A i \in 1..Len(added) :
       /\ added[i].importance = "high"
       /\ added[i].chapter = chapter_num

\* C27: for a chapter's character_development, update_with_chapter creates
\* exactly one character_development point of importance high when the
\* value is a non-empty string, one such point per item when it is a list,
\* and no point when it is the empty string or absent.
C27_DevelopmentPoints ==
  [][last'.op = "update_with_chapter" =>
       \E all \in {extract_points(context_points, last'.chapter, last'.n)} :
         /\ DevelopmentPerValue(last'.chapter.character_development,
                                AddedOfType(context_points, all, "character_development"),
                                last'.n)
         /\ last'.peak <= 3 * MAX_CONTEXT_ITEMS => context_points' = all]_vars

\* a chapter with a list of two developments was recorded after a chapter
\* whose development is one string: one point and then two
C27_Witness ==
  /\ last.op = "update_with_chapter"
  /\ last.chapter.character_development = PyList(Items(DevTexts, 2))
  /\ SelectSeq(context_points, LAMBDA point : point.type = "character_development")
       = << new_point("Asha grows bolder", 1, "high", "character_development"),
            new_point("1. Asha grows bolder", last.n, "high", "character_development"),
            new_point("2. Ravi doubts himself", last.n, "high", "character_development") >>

(***************************************************************************)
(* Properties of the outline generation (OutlineSpec).                     *)
(***************************************************************************)
\* C14: the outline that generate_story_outline returns for num_chapters = N
\* has exactly N stubs, whether the model wrote fewer, more, or nothing
\* that can be parsed, and the stubs added as padding or as fallback carry
\* their 1-based position as chapter_number.
C14_OutlineHasNStubs ==
  pc = "outlined" =>
    /\ Len(story_outline.chapters) = num_chapters
    /\ \A k \in 1..Len(story_outline.chapters) :
         story_outline.chapters[k].summary = PyStr("To be determined") =>
           story_outline.chapters[k].chapter_number = PyInt(k)

\* the answer was a list of N items that are not objects: the returned
\* outline holds them and N placeholder stubs after them
C14_Witness ==
  /\ pc = "outlined"
  /\ generation = [response |-> "titles_only", path |-> "stub_error"]
  /\ num_chapters >= 2
  /\ Len(story_outline.chapters) = 2 * num_chapters
  /\ story_outline.chapters[num_chapters + 1].chapter_number = PyInt(1)

(***************************************************************************)
(* Properties of the field validation (ValidateSpec).                      *)
(***************************************************************************)
\* C15: after _validate_chapter_fields each of key_events,
\* next_chapter_hooks, cultural_elements_used and genre_elements_used is a
\* list, whatever the raw value was: [s] for a non-empty string s, [] for
\* "", None or a missing key, the list itself for a list; and validating
\* the validated record changes nothing.
C15_ListFieldsAreLists ==
  /\ pc = "validated" =>
       \A field \in ListFields :
         \E raw \in {last.chapter[field]} :
           /\ loop_chapter[field].t = "list"
           /\ (raw.t = "str" /\ raw.s # "") => loop_chapter[field] = PyList(<<raw.s>>)
           /\ (raw.t = "str" /\ raw.s = "") => loop_chapter[field] = PyList(<<>>)
           /\ raw.t \in {"none", "absent"} => loop_chapter[field] = PyList(<<>>)
           /\ raw.t = "list" => loop_chapter[field] = raw
  /\ pc = "revalidated" => loop_chapter = last.chapter

\* key_events came as a number and next_chapter_hooks as a string: after
\* the validation the hooks are a list and key_events is still the number
C15_Witness ==
  /\ pc = "validated"
  /\ last.chapter.key_events = PyInt(7)
  /\ last.chapter.next_chapter_hooks = PyStr("Hero found the letter")
  /\ loop_chapter.next_chapter_hooks = PyList(<<"Hero found the letter">>)
  /\ loop_chapter.key_events = PyInt(7)

(***************************************************************************)
(* Properties of one run of the chapter loop (LoopSpec).                   *)
(***************************************************************************)
LoopOps == <<"get_context_for_chapter", "generate_chapter", "save_chapter",
             "update_with_chapter">>

\* the j-th call of a run: the four steps of chapter 1, then of chapter 2, ...
ExpectedCall(j) == [op |-> LoopOps[((j - 1) % 4) + 1], n |-> ((j - 1) \div 4) + 1]

CallsInOrder ==
  /\ Len(trace) <= 4 * num_chapters
  /\ \A j \in 1..Len(trace) : trace[j] = ExpectedCall(j)
  /\ pc = "done" => Len(trace) = 4 * num_chapters

\* the store as get_context_for_chapter(i) found it: pc = "invoke" is the
\* state right after the retrieval, which leaves the store as it was
StoreAtRetrieval ==
  pc = "invoke" =>
    /\ DOMAIN chapter_summaries = 1..(loop_chapter_num - 1)
    /\ \A k \in 1..Len(context_points) : context_points[k].chapter < loop_chapter_num
    /\ \A k \in 1..(loop_chapter_num - 1) :
         \E m \in 1..Len(trace) : trace[m] = [op |-> "update_with_chapter", n |-> k]

OnlyUpdateChangesStore ==
  store_vars' # store_vars =>
    /\ pc = "update"
    /\ trace' = Append(trace, [op |-> "update_with_chapter", n |-> loop_chapter_num])

\* C8: the calls of a run are, in this order and once each, retrieval,
\* generation, save and update of chapter 1, then of chapter 2, and so on up
\* to chapter N; only the update step changes the store; and when the
\* context of chapter i is retrieved the store holds summaries of exactly
\* the chapters 1..i-1 and no point of a chapter >= i.
C8_LoopOrder ==
  [](CallsInOrder /\ StoreAtRetrieval) /\ [][OnlyUpdateChangesStore]_vars

\* the last chapter of a run of at least three is about to be generated,
\* on a store the earlier chapters filled
C8_Witness ==
  /\ pc = "invoke"
  /\ loop_chapter_num = num_chapters
  /\ num_chapters >= 3
  /\ context_points # <<>>
  /\ Len(result.previous_chapters) = num_chapters - 1

HasEveryField(chapter) ==
  \A field \in SchemaFields \cup {"chapter_number"} : chapter[field].t # "absent"

\* C9: whatever the generation call does, the run is not aborted: after
\* the generation step of a chapter the loop holds a chapter record with
\* every schema field and goes on to save it.
C9_NoGenerationErrorAborts ==
  /\ pc # "aborted"
  /\ pc \in {"save", "update"} => HasEveryField(loop_chapter)

\* the generation call raised for a later chapter: the run stopped with the
\* earlier chapters recorded and this one neither saved nor recorded
C9_Witness ==
  /\ pc = "aborted"
  /\ generation.path = "llm_error"
  /\ loop_chapter_num >= 2
  /\ loop_chapter_num < num_chapters
  /\ DOMAIN chapter_summaries = 1..(loop_chapter_num - 1)

\* C10: when parsing the output fails, generate_chapter returns (the loop
\* goes on to save) a record with the chapter's number, the stub's title and
\* summary or their defaults, the fixed content and character_development
\* texts, the default genre elements of the chapter's position, and empty
\* key_events, cultural_elements_used and next_chapter_hooks.
C10_ParseFailureFallback ==
  (generation.path = "parse_error" /\ pc \in {"save", "update"}) =>
    LET stub == get_chapter_outline(story_outline, loop_chapter_num)
    IN /\ HasEveryField(loop_chapter)
       /\ loop_chapter.chapter_number = PyInt(loop_chapter_num)
       /\ loop_chapter.title = DictGet(stub.title, PyStr(DefaultTitle(loop_chapter_num)))
       /\ loop_chapter.content = PyStr("Error generating chapter content.")
       /\ loop_chapter.summary = DictGet(stub.summary, PyStr("Summary not available."))
       /\ loop_chapter.key_events = PyList(<<>>)
       /\ loop_chapter.character_development = PyStr("No character development tracked.")
       /\ loop_chapter.cultural_elements_used = PyList(<<>>)
       /\ loop_chapter.genre_elements_used =
            PyList(get_default_genre_elements(loop_chapter_num, num_chapters,
                                              selected_genres))
       /\ loop_chapter.next_chapter_hooks = PyList(<<>>)

\* the output of a later chapter was prose, not JSON, the outline has a
\* stub with a title for the chapter, and the fallback record is being saved
C10_Witness ==
  /\ generation = [response |-> "prose", path |-> "parse_error"]
  /\ pc = "save"
  /\ loop_chapter_num >= 2
  /\ loop_chapter.title = PyStr("Outline title " \o ToString(loop_chapter_num))
  /\ loop_chapter.content = PyStr("Error generating chapter content.")

\* C16: output that is valid but for one missing schema field (here the
\* summary) gives a record that keeps the fields the output supplied and
\* has a default in place of the missing one; it is not replaced by the
\* fallback record.
C16_MissingFieldDefaulted ==
  (generation.response = "no_summary" /\ pc \in {"save", "update"}) =>
    /\ generation.path = "parsed"
    /\ loop_chapter.title = JsonChapter.title
    /\ loop_chapter.content = JsonChapter.content
    /\ loop_chapter.key_events = JsonChapter.key_events
    /\ loop_chapter.character_development = JsonChapter.character_development
    /\ loop_chapter.summary.t = "str"

\* the output lacked only the summary and the fallback record is being saved
C16_Witness ==
  /\ generation = [response |-> "no_summary", path |-> "parse_error"]
  /\ pc = "save"
  /\ loop_chapter.content = PyStr("Error generating chapter content.")
  /\ loop_chapter.key_events = PyList(<<>>)
  /\ loop_chapter.title # JsonChapter.title

\* C17: save_chapter returns to the loop whether or not the write
\* succeeded, leaving the chapter record and the store as they were; the
\* next step passes that record to update_with_chapter, so the store after
\* it does not depend on the outcome of the save, and the loop goes on to
\* the next chapter (or ends after the last).
C17_SaveFailureIgnored ==
  [][/\ pc = "save" =>
          /\ pc' = "update"
          /\ loop_chapter' = loop_chapter
          /\ store_vars' = store_vars
     /\ pc = "update" =>
          /\ \E updated \in {update_with_chapter(context_points, chapter_summaries,
                                                loop_chapter, loop_chapter_num)} :
               /\ context_points' = updated.points
               /\ chapter_summaries' = updated.summaries
          /\ last' = Call("update_with_chapter", loop_chapter_num, loop_chapter,
                          last'.peak)
          /\ IF loop_chapter_num < num_chapters
             THEN pc' = "get_context" /\ loop_chapter_num' = loop_chapter_num + 1
             ELSE pc' = "done"]_vars

\* the save of a parsed chapter failed; the chapter is recorded in the
\* store and the loop is at the next chapter
C17_Witness ==
  /\ ~save_result
  /\ pc = "get_context"
  /\ loop_chapter_num >= 2
  /\ generation.path = "parsed"
  /\ last = Call("update_with_chapter", loop_chapter_num - 1, loop_chapter, last.peak)
  /\ chapter_summaries[loop_chapter_num - 1].title = loop_chapter.title.s
  /\ \E i \in 1..Len(context_points) : context_points[i].chapter = loop_chapter_num - 1

\* the guidance of the chapter being generated, with Mystery as only genre
\* and four chapters
MysteryOfFour(chapter_num) ==
  /\ pc = "invoke"
  /\ selected_genres = <<"Mystery">>
  /\ num_chapters = 4
  /\ loop_chapter_num = chapter_num

\* C18 as claimed: with genres ["Mystery"] and 4 chapters the emphasis of
\* chapter 1 reports the introduction phase and that of chapter 3 reports
\* "resolving".
C18_ThirdOfFourResolving ==
  /\ MysteryOfFour(1) => genre_guidance.narrative_phase = "introduction"
  /\ MysteryOfFour(3) => genre_guidance.focus = "resolving"

\* C18 as amended: the emphasis of chapter i of N reports phase
\* "introduction" and focus "establishing" when i/N <= 0.25, "complication"
\* and "developing" when 0.25 < i/N <= 0.75, "resolution" and "resolving"
\* when i/N > 0.75; with ["Mystery"] and 4 chapters, chapter 1 is in the
\* first bucket, chapter 3 (at exactly 0.75) in the second and chapter 4 in
\* the third.
C18_PhaseBuckets ==
  /\ pc = "invoke" =>
       /\ 4 * loop_chapter_num <= num_chapters =>
            /\ genre_guidance.narrative_phase = "introduction"
            /\ genre_guidance.focus = "establishing"
       /\ (4 * loop_chapter_num > num_chapters
            /\ 4 * loop_chapter_num <= 3 * num_chapters) =>
            /\ genre_guidance.narrative_phase = "complication"
            /\ genre_guidance.focus = "developing"
       /\ 4 * loop_chapter_num > 3 * num_chapters =>
            /\ genre_guidance.narrative_phase = "resolution"
            /\ genre_guidance.focus = "resolving"
  /\ MysteryOfFour(1) => genre_guidance.narrative_phase = "introduction"
  /\ MysteryOfFour(3) => genre_guidance.focus = "developing"
  /\ MysteryOfFour(4) => genre_guidance.focus = "resolving"

\* the emphasis of chapter 3 of 4 has been computed
C18_Witness ==
  /\ MysteryOfFour(3)
  /\ genre_guidance.chapter_position = "3/4"
  /\ genre_guidance.focus = "developing"
  /\ genre_guidance.primary_genre = "Mystery"

\* the responses that are JSON objects with every schema field
ParsableResponses == {"lists", "strings", "genre_named"}

\* C19: when the output parses, generate_chapter returns the parsed
\* chapter, with its title, content and summary, for every genre list and
\* every genre_elements_used; the fallback record is returned only when
\* the output does not parse.
C19_FallbackOnlyOnParseFailure ==
  pc \in {"save", "update"} =>
    /\ generation.response \in ParsableResponses =>
         /\ generation.path = "parsed"
         /\ loop_chapter.title = JsonChapter.title
         /\ loop_chapter.content = JsonChapter.content
         /\ loop_chapter.summary = JsonChapter.summary
    /\ loop_chapter.content = PyStr("Error generating chapter content.") =>
         generation.response \notin ParsableResponses

\* the only genre is Mystery and the parsed genre_elements_used name it:
\* the element was filed under open_questions, the append to key_elements
\* raised KeyError, and the fallback record is being saved
C19_Witness ==
  /\ pc = "save"
  /\ selected_genres = <<"Mystery">>
  /\ generation = [response |-> "genre_named", path |-> "arc_error"]
  /\ loop_chapter.content = PyStr("Error generating chapter content.")
  /\ genre_arcs["Mystery"]["open_questions"] # <<>>
  /\ "key_elements" \notin DOMAIN genre_arcs["Mystery"]

\* the point that the placeholder text of a fallback record becomes
PlaceholderPoint(chapter_num) ==
  [content |-> "No character development tracked.", chapter |-> chapter_num,
   importance |-> "high", type |-> "character_development", weight |-> 3]

\* the store gains one placeholder point of chapter i and no other point
GainsOnlyPlaceholder(before, after, i) ==
  /\ \A x \in Range(after) : Count(after, x) > Count(before, x) => x = PlaceholderPoint(i)
  /\ Count(after, PlaceholderPoint(i)) = Count(before, PlaceholderPoint(i)) + 1
  /\ \A k \in 1..Len(after) :
       after[k].chapter = i => after[k].type \notin {"event", "hook"}

\* C24: when the record that generate_chapter returns for chapter i is the
\* fallback record, update_with_chapter(chapter, i) records the summary of
\* chapter i, with the title and summary of the fallback, and the store
\* gains exactly one point: a character_development point of weight 3 with
\* the text "No character development tracked.", and no event or hook
\* point; the bundle for chapter i+1 carries that text in
\* character_developments.
C24_FallbackPlaceholder ==
  [][(pc = "update" /\ generation.path \in {"parse_error", "arc_error"}) =>
       /\ loop_chapter.content = PyStr("Error generating chapter content.")
       /\ GainsOnlyPlaceholder(context_points, context_points', loop_chapter_num)
       /\ DOMAIN chapter_summaries' = DOMAIN chapter_summaries \cup {loop_chapter_num}
       /\ chapter_summaries'[loop_chapter_num] =
            [title |-> loop_chapter.title.s, summary |-> loop_chapter.summary.s,
             key_events |-> PyList(<<>>)]
       /\ "No character development tracked."
            \in Range(get_context_for_chapter(context_points', chapter_summaries',
                                              loop_chapter_num + 1).character_developments)]_vars

\* the fallback record of chapter 2 was recorded after a parsed chapter 1,
\* and the context for chapter 3 has been retrieved: the placeholder is the
\* first of its character developments
C24_Witness ==
  /\ pc = "invoke"
  /\ loop_chapter_num = 3
  /\ loop_chapter.content = PyStr("Error generating chapter content.")
  /\ context_points[Len(context_points)] = PlaceholderPoint(2)
  /\ context_points[1].chapter = 1
  /\ DOMAIN chapter_summaries = {1, 2}
  /\ result.character_developments[1] = "No character development tracked."
  /\ Len(result.character_developments) > 1

\* the sentence generate_chapter writes about the chapter after this one
TrajectorySentence ==
  get_genre_trajectory(loop_chapter_num + 1, Len(story_outline.chapters),
                       selected_genres, genre_arcs)

\* C29: every chapter that generate_chapter returns through the
\* successful-parse path has a non-empty next_chapter_hooks list whose last
\* element is the genre-trajectory sentence for chapter i+1, so that
\* update_with_chapter records at least one hook point of weight 3 for it,
\* also when the model returned no hooks.
C29_TrajectoryHookLast ==
  /\ (pc \in {"save", "update"} /\ generation.path = "parsed") =>
       /\ loop_chapter.next_chapter_hooks.t = "list"
       /\ loop_chapter.next_chapter_hooks.l # <<>>
       /\ loop_chapter.next_chapter_hooks.l[Len(loop_chapter.next_chapter_hooks.l)]
            = TrajectorySentence
  /\ (last.op = "update_with_chapter" /\ generation.path = "parsed"
        /\ pc \in {"get_context", "done"}) =>
       \E i \in 1..Len(context_points) :
         /\ context_points[i].type = "hook"
         /\ context_points[i].weight = 3
         /\ context_points[i].chapter = last.n

\* the model listed the text "genre_trajectory" among its hooks: the output
\* parsed, and the hooks of the returned chapter are the two the model
\* wrote, without the trajectory sentence
C29_Witness ==
  /\ pc = "save"
  /\ generation = [response |-> "trajectory_named", path |-> "parsed"]
  /\ loop_chapter.next_chapter_hooks =
       PyList(<<"genre_trajectory", "Who sent the letter?">>)
  /\ TrajectorySentence \notin Range(loop_chapter.next_chapter_hooks.l)

\* arc_data.get("current_stage", 0)
CurrentStage(arc) == IF "current_stage" \in DOMAIN arc THEN arc["current_stage"] ELSE 0

\* the number of stages of a genre's arc
StageCount(arc) == Len(arc[stage_list_key(arc)])

\* min(floor(i * stageCount / N), stageCount - 1)
StageAt(i, total_chapters, stage_count) ==
  LET reached == CHOOSE q \in 0..(i * stage_count) :
                   /\ q * total_chapters <= i * stage_count
                   /\ (q + 1) * total_chapters > i * stage_count
  IN IF reached < stage_count - 1 THEN reached ELSE stage_count - 1

\* every genre's current_stage is the stage of chapter i of N
StagesOfChapter(arcs, i, total_chapters) ==
  \A genre \in DOMAIN arcs :
    /\ "current_stage" \in DOMAIN arcs[genre]
    /\ arcs[genre]["current_stage"] = StageAt(i, total_chapters, StageCount(arcs[genre]))

\* no genre's current_stage goes down, and each lies in 0..stageCount-1
StagesAdvance ==
  \A genre \in DOMAIN genre_arcs :
    /\ CurrentStage(genre_arcs'[genre]) >= CurrentStage(genre_arcs[genre])
    /\ CurrentStage(genre_arcs'[genre]) \in 0..(StageCount(genre_arcs'[genre]) - 1)

\* C30: after the genre-arc update for chapter i of N every tracked genre's
\* current_stage is min(floor(i * stageCount / N), stageCount - 1), whatever
\* it was before; over the chapters of a run it never decreases, lies in
\* 0..stageCount-1, and is stageCount-1 after the update for chapter N.
C30_StageFromPosition ==
  [][/\ StagesAdvance
     /\ (pc = "invoke" /\ pc' = "save" /\ generation'.path # "parse_error") =>
          /\ StagesOfChapter(genre_arcs', loop_chapter_num, num_chapters)
          /\ loop_chapter_num = num_chapters =>
               \A genre \in DOMAIN genre_arcs :
                 genre_arcs'[genre]["current_stage"] = StageCount(genre_arcs'[genre]) - 1]_vars

\* the arc update for chapter 2 of 2 raised KeyError before the stages were
\* set: the Mystery arc is still at stage 2, the stage of chapter 1
C30_Witness ==
  /\ pc = "save"
  /\ loop_chapter_num = 2
  /\ num_chapters = 2
  /\ selected_genres = <<"Mystery">>
  /\ generation.path = "arc_error"
  /\ genre_arcs["Mystery"]["current_stage"] = 2
  /\ StageAt(2, 2, 5) = 4

(***************************************************************************)
(* Properties of the long run (LongRunSpec).                               *)
(***************************************************************************)
\* chapters 1..k are recorded, and every bundle for a later chapter lists
\* the k summaries in order
AllSummariesListed ==
  \E k \in {Cardinality(DOMAIN chapter_summaries)} :
    /\ DOMAIN chapter_summaries = 1..k
    /\ \A n \in (k + 1)..(MaxLongRun + 1) :
         Bundle(n).previous_chapters = [j \in 1..k |-> chapter_summaries[j]]

\* C28: chapter summaries are never pruned or cut: after chapters 1..k are
\* recorded, get_context_for_chapter(n) for every n > k returns all k
\* summaries in previous_chapters, also when k is greater than
\* MAX_CONTEXT_ITEMS and after the points were pruned; the bundle that the
\* loop retrieves for chapter i lists i-1 summaries.
C28_SummariesNeverPruned ==
  /\ AllSummariesListed
  /\ pc = "invoke" => Len(result.previous_chapters) = loop_chapter_num - 1

\* the context for the last chapter of the long run: more summaries than
\* MAX_CONTEXT_ITEMS, the first of them of chapter 1, of which the pruned
\* store holds no point any more
C28_Witness ==
  /\ pc = "invoke"
  /\ loop_chapter_num = MaxLongRun
  /\ Len(result.previous_chapters) > MAX_CONTEXT_ITEMS
  /\ result.previous_chapters[1] = chapter_summaries[1]
  /\ Len(context_points) <= 3 * MAX_CONTEXT_ITEMS
  /\ Len(context_points) < 3 * (loop_chapter_num - 1)
  /\ \A i \in 1..Len(context_points) : context_points[i].chapter # 1
  /\ Len(result.open_hooks) = MAX_CONTEXT_ITEMS

=============================================================================
